---- MODULE Spec2Model ----
(***************************************************************************)
(* BitBurn overwrite engine: secure_wipe_file (src-tauri/src/main.rs) as a *)
(* state machine, one action per statement group of the function, run     *)
(* inside an operation (wipe_files / execute_free_space_wipe) that owns   *)
(* the cancel flag set by the cancel_operation listener.                  *)
(*                                                                         *)
(* Sizes are in bytes.  A file's content is kept per BUFFER_SIZE chunk as  *)
(* the fill that was last written over that chunk.                         *)
(***************************************************************************)
EXTENDS Integers, Sequences, FiniteSets, TLC

(* ------------------------------ bounds -------------------------------- *)
\* Largest file, in whole chunks.
MaxChunks == 2
\* Largest passes argument drawn for a call.
MaxPasses == 3
\* Granularity of the wall clock, in milliseconds.
TickMs == 8

(* ------------------------- program constants -------------------------- *)
BUFFER_SIZE == 1024 * 1024
progress_update_interval == 16

Algorithms == {"NistClear", "NistPurge", "Gutmann", "Random"}

Min(a, b) == IF a < b THEN a ELSE b
Max(a, b) == IF a > b THEN a ELSE b

\* File sizes: empty, below one chunk, exact multiples and non-multiples.
FileSizes ==
    {c * BUFFER_SIZE + r : c \in 0 .. (MaxChunks - 1), r \in {0, 1}}
        \cup {MaxChunks * BUFFER_SIZE}

\* Durations an I/O call can take on the model's clock.
Durations == {0, TickMs, 2 * TickMs}

(* ----------------------------- file system ---------------------------- *)
\* "p" is a path handed to secure_wipe_file; "q" is where "p" points when it
\* is a symbolic link.  "d" is a directory with the entries "d/a" and "d/b".
\* "t" is the .temp_wipe_file at the root of the volume being filled.
Paths == {"p", "q", "d", "d/a", "d/b", "t"}
LinkTarget == "q"
TempFile == "t"
Children(p) == IF p = "d" THEN {"d/a", "d/b"} ELSE {}

OrigFill == [kind |-> "orig", pattern |-> <<>>]
RandomFill == [kind |-> "random", pattern |-> <<>>]
PartialFill == [kind |-> "partial", pattern |-> <<>>]
FixedFill(pat) == [kind |-> "fixed", pattern |-> pat]

NumChunks(size) == (size + BUFFER_SIZE - 1) \div BUFFER_SIZE

NoNode == [kind |-> "none", len |-> 0, data |-> <<>>]
SymlinkNode == [kind |-> "symlink", len |-> 0, data |-> <<>>]
DirNode == [kind |-> "dir", len |-> 0, data |-> <<>>]
FileNode(size) ==
    [kind |-> "file", len |-> size, data |-> [i \in 1 .. NumChunks(size) |-> OrigFill]]

\* Variant: the link test made on metadata that follows links, which never
\* reports a link.
is_symlink_followed(f, p) == FALSE

\* Path::is_symlink: the entry itself is a link, whatever it points to.
is_symlink(f, p) == f[p].kind = "symlink"

\* Path::exists: follows links; true when the final entry is there.
exists(f, p) ==
    IF f[p].kind = "symlink" THEN f[LinkTarget].kind = "file"
    ELSE f[p].kind \in {"file", "dir"}

\* Path::is_file and Path::is_dir: follow links as well.
is_file(f, p) ==
    IF f[p].kind = "symlink" THEN f[LinkTarget].kind = "file" ELSE f[p].kind = "file"
is_dir(f, p) == f[p].kind = "dir"

\* The entry an open of p reaches: links are followed.
Resolve(f, p) == IF f[p].kind = "symlink" THEN LinkTarget ELSE p

\* write_all of n bytes of fill at byte offset pos (chunk aligned) of path p.
WriteAt(f, p, pos, n, fill) ==
    LET node == f[p]
        idx == (pos \div BUFFER_SIZE) + 1
        newLen == Max(node.len, pos + n)
        newData == [i \in 1 .. NumChunks(newLen) |->
                       IF i = idx THEN fill
                       ELSE IF i <= Len(node.data) THEN node.data[i] ELSE OrigFill]
    IN  [f EXCEPT ![p] = [kind |-> "file", len |-> newLen, data |-> newData]]

\* File::set_len(0)
SetLenZero(f, p) == [f EXCEPT ![p] = [kind |-> "file", len |-> 0, data |-> <<>>]]

\* fs::remove_file
Unlink(f, p) == [f EXCEPT ![p] = NoNode]

(* ------------------------------ results ------------------------------- *)
Running == [tag |-> "none", kind |-> "", msg |-> ""]
Ok == [tag |-> "Ok", kind |-> "", msg |-> ""]
PathNotFound == [tag |-> "PathNotFound", kind |-> "", msg |-> ""]
InvalidPasses == [tag |-> "InvalidPasses", kind |-> "", msg |-> ""]
Io(kind, msg) == [tag |-> "Io", kind |-> kind, msg |-> msg]

SymlinkRefusal == Io("InvalidInput", "Cannot wipe symbolic links")
AccessDenied ==
    Io("PermissionDenied",
       "Access denied. The file might be in use or require administrator privileges.")
CancelledErr == Io("Interrupted", "Operation cancelled by user")
\* An error the operating system returned, passed through unchanged.
OsError(kind) == Io(kind, "os")

(* ------------------------------ pass plans ---------------------------- *)
\* (pattern byte, is_random, pattern_type) of the three NIST 800-88 Purge passes.
PurgePatterns ==
    << [pattern |-> <<0>>,   is_random |-> FALSE, pattern_type |-> "zeros"],
       [pattern |-> <<255>>, is_random |-> FALSE, pattern_type |-> "ones"],
       [pattern |-> <<0>>,   is_random |-> TRUE,  pattern_type |-> "random data"] >>

GRandom(n) ==
    [pattern |-> <<0>>, is_random |-> TRUE,
     desc |-> "Random data (Pass " \o ToString(n) \o "/35)"]
GFixed(n, pat, text) ==
    [pattern |-> pat, is_random |-> FALSE,
     desc |-> "Pattern " \o ToString(n) \o "/35: " \o text]
\* Variant: a table whose fifth pass is random as well.
GutmannPatterns_FiveRandom ==
    [k \in 1 .. 35 |->
        IF k <= 5 \/ k >= 32 THEN GRandom(k) ELSE GFixed(k, <<0>>, "0x00")]

\* The Gutmann table: (pattern, is_random, desc) in execution order.
GutmannPatterns ==
    << GRandom(1), GRandom(2), GRandom(3), GRandom(4),
       GFixed(5,  <<85, 170, 85, 170>>, "0x55 0xAA"),
       GFixed(6,  <<170, 85, 170, 85>>, "0xAA 0x55"),
       GFixed(7,  <<146, 73, 36>>,  "0x92 0x49 0x24"),
       GFixed(8,  <<73, 36, 146>>,  "0x49 0x24 0x92"),
       GFixed(9,  <<36, 146, 73>>,  "0x24 0x92 0x49"),
       GFixed(10, <<0>>,   "0x00"),
       GFixed(11, <<17>>,  "0x11"),
       GFixed(12, <<34>>,  "0x22"),
       GFixed(13, <<51>>,  "0x33"),
       GFixed(14, <<68>>,  "0x44"),
       GFixed(15, <<85>>,  "0x55"),
       GFixed(16, <<102>>, "0x66"),
       GFixed(17, <<119>>, "0x77"),
       GFixed(18, <<136>>, "0x88"),
       GFixed(19, <<153>>, "0x99"),
       GFixed(20, <<170>>, "0xAA"),
       GFixed(21, <<187>>, "0xBB"),
       GFixed(22, <<204>>, "0xCC"),
       GFixed(23, <<221>>, "0xDD"),
       GFixed(24, <<238>>, "0xEE"),
       GFixed(25, <<255>>, "0xFF"),
       GFixed(26, <<146, 73, 36>>,   "0x92 0x49 0x24"),
       GFixed(27, <<73, 36, 146>>,   "0x49 0x24 0x92"),
       GFixed(28, <<36, 146, 73>>,   "0x24 0x92 0x49"),
       GFixed(29, <<109, 182, 219>>, "0x6D 0xB6 0xDB"),
       GFixed(30, <<182, 219, 109>>, "0xB6 0xDB 0x6D"),
       GFixed(31, <<219, 109, 182>>, "0xDB 0x6D 0xB6"),
       GRandom(32), GRandom(33), GRandom(34), GRandom(35) >>

\* Variant: the Random arm iterating over 1..passes, upper end excluded.
PassCount_Exclusive(alg, n) ==
    CASE alg = "NistClear" -> 1
      [] alg = "NistPurge" -> Len(PurgePatterns)
      [] alg = "Gutmann"   -> Len(GutmannPatterns)
      [] alg = "Random"    -> n - 1

\* Number of iterations of the pass loop of each match arm.
PassCount(alg, n) ==
    CASE alg = "NistClear" -> 1
      [] alg = "NistPurge" -> Len(PurgePatterns)
      [] alg = "Gutmann"   -> Len(GutmannPatterns)
      [] alg = "Random"    -> n
\* Variant: every pass of every algorithm writes random data.
PassFill_AllRandom(alg, k) == RandomFill

\* What pass k of the algorithm writes over a chunk.
PassFill(alg, k) ==
    CASE alg = "NistClear" -> FixedFill(<<0>>)
      [] alg = "NistPurge" ->
            IF PurgePatterns[k].is_random THEN RandomFill
            ELSE FixedFill(PurgePatterns[k].pattern)
      [] alg = "Gutmann" ->
            IF GutmannPatterns[k].is_random THEN RandomFill
            ELSE FixedFill(GutmannPatterns[k].pattern)
      [] alg = "Random" -> RandomFill

\* The label of the snapshot emitted when pass k starts.
PassDesc(alg, k, n) ==
    CASE alg = "NistClear" -> "NIST 800-88 Clear - Writing zeros"
      [] alg = "NistPurge" ->
            "NIST 800-88 Purge - Writing " \o PurgePatterns[k].pattern_type
                \o " (Pass " \o ToString(k) \o "/3)"
      [] alg = "Gutmann" -> GutmannPatterns[k].desc
      [] alg = "Random" ->
            "Writing random data (Pass " \o ToString(k) \o "/" \o ToString(n) \o ")"

\* The label of an in-loop snapshot: the pass label followed by the formatted
\* megabyte figures, kept here as a fixed suffix.
ChunkDesc(alg, k, n) == PassDesc(alg, k, n) \o " - MB"

\* The label of the snapshot emitted after the last pass.
FinalDesc(alg) ==
    CASE alg = "NistClear" -> "Finalizing NIST 800-88 Clear wipe"
      [] alg = "NistPurge" -> "Finalizing NIST 800-88 Purge wipe"
      [] alg = "Gutmann"   -> "Finalizing Gutmann wipe"
      [] alg = "Random"    -> "Finalizing random wipe"

AlgorithmName(alg) ==
    CASE alg = "NistClear" -> "NIST 800-88 Clear"
      [] alg = "NistPurge" -> "NIST 800-88 Purge"
      [] alg = "Gutmann"   -> "Gutmann"
      [] alg = "Random"    -> "Random"

(* ------------------------------ progress ------------------------------ *)
\* estimated_total_bytes: None
None == -1

\* The quotient bytes_processed / D * 100 of WipeProgress::update, kept as
\* numerator and denominator.
Percentage(bytes, est, total) ==
    [num |-> bytes * 100, den |-> IF est # None THEN est ELSE total]

\* Variant: the snapshot starts with total_bytes 0 whatever the size given.
WipeProgressNew_NoTotal(total_passes, total_bytes, alg) ==
    [current_pass |-> 1,
     total_passes |-> total_passes,
     bytes_processed |-> 0,
     total_bytes |-> 0,
     current_algorithm |-> AlgorithmName(alg),
     current_pattern |-> "",
     percentage |-> [num |-> 0, den |-> 1],
     estimated_total_bytes |-> None]

\* WipeProgress::new
WipeProgressNew(total_passes, total_bytes, alg) ==
    [current_pass |-> 1,
     total_passes |-> total_passes,
     bytes_processed |-> 0,
     total_bytes |-> total_bytes,
     current_algorithm |-> AlgorithmName(alg),
     current_pattern |-> "",
     percentage |-> [num |-> 0, den |-> 1],
     estimated_total_bytes |-> None]

\* WipeProgress::update
Update(pr, bytes, pattern) ==
    [pr EXCEPT !.bytes_processed = bytes,
               !.current_pattern = pattern,
               !.percentage = Percentage(bytes, pr.estimated_total_bytes, pr.total_bytes)]

(* ------------------------------- state -------------------------------- *)
VARIABLES
    fs,                \* the file system: path -> node
    fs0,               \* the file system when the call started
    path,              \* secure_wipe_file: path
    passes,            \* secure_wipe_file: passes
    algorithm,         \* secure_wipe_file: algorithm
    pc,                \* position inside secure_wipe_file
    result,            \* the value returned, Running until then
    cancelled,         \* secure_wipe_file's own flag, read by check_cancelled
    opCancelled,       \* the operation's flag, set by the cancel_operation listener
    file,              \* the open handle: [open, node it refers to, pos]
    file_size,
    progress,          \* the WipeProgress being mutated
    pass,              \* 1-based index of the pass being executed
    chunk_start,
    elapsed,           \* last_progress_update.elapsed(), capped at the interval
    emitted,           \* the last snapshot handed to progress_callback, if any, and whether it was sent on
    prevPass,          \* current_pass of the snapshot before that one, 0 if none
    loopGap,           \* time from the previous in-loop snapshot (or the start) to the last one
    ioLog,             \* the last four file-system calls that succeeded
    ioCount,           \* file-system calls issued, by kind
    sweeps,            \* passes written in full and synced
    cancelCtx,         \* phase the call was in when the operation's flag was set
    writesAfterCancel, \* chunk writes issued after the operation's flag was set
    opPc,              \* position inside wipe_files / execute_free_space_wipe
    opResult,          \* what the command returned, NoResult until then
    batch,             \* wipe_files: loop state and counters
    filler,            \* execute_free_space_wipe: locals of the worker closure
    disk,              \* the volume: [found, free]
    hist,              \* what the operation has done so far (history)
    ctx,               \* sanitize_context_paths: its argument, locals and result
    bus                \* the app's event bus: the command invocations, their flags and listeners

vars ==
    << fs, fs0, path, passes, algorithm, pc, result, cancelled, opCancelled, file,
       file_size, progress, pass, chunk_start, elapsed, emitted, prevPass, loopGap,
       ioLog, ioCount, sweeps, cancelCtx, writesAfterCancel, opPc, opResult, batch,
       filler, disk, ctx, bus, hist >>

\* The state of the operation around secure_wipe_file.
opVars == << opPc, opResult, batch, filler, disk, ctx, bus, hist >>

\* The locals and history of one secure_wipe_file call, the snapshots handed
\* out left aside.
callLocals ==
    << fs0, path, pc, result, cancelled, file, file_size, progress, pass, chunk_start,
       elapsed, loopGap, ioLog, ioCount, sweeps >>

\* The locals and history of one secure_wipe_file call.
callVars == << callLocals, emitted, prevPass >>

IoKinds == {"open", "metadata", "seek", "write", "sync", "set_len", "close", "remove"}

NoHandle == [open |-> FALSE, node |-> "", pos |-> 0]
NoCancel == "never"

\* The phase of the call a position belongs to: before the working handle is
\* open, inside the pass loop, or after the last pass.
Phase(at) ==
    CASE at \in {"check_symlink", "check_exists", "check_passes", "open_probe", "open"}
            -> "opening"
      [] at \in {"metadata", "pass_start", "chunk", "sync"} -> "overwriting"
      [] at \in {"finalize", "set_len", "close", "remove"} -> "finishing"

\* File systems a call can start from: the path is missing, a regular file of
\* any modelled size, or a symbolic link whose target exists or not.
InitialFileSystems ==
    {[p \in Paths |-> IF p = "p" THEN FileNode(s) ELSE NoNode] : s \in FileSizes}
        \cup {[p \in Paths |-> NoNode]}
        \cup {[p \in Paths |-> IF p = "p" THEN SymlinkNode ELSE NoNode],
              [p \in Paths |-> IF p = "p" THEN SymlinkNode ELSE FileNode(1)]}

NoResult == [kind |-> "none"]
NoBatch == [paths |-> <<>>, queue |-> <<>>, cur |-> "", entries |-> <<>>, total_files |-> 0,
            failed_files |-> <<>>]
\* A u64: v when not wrapped, 2^64 - v when the subtraction that made it wrapped.
\* The worker closure has not built its WipeProgress yet.
NoProgress == [current_pattern |-> ""]

U64(v) == [v |-> v, wrapped |-> FALSE]
Wrapped(v) == [v |-> v, wrapped |-> TRUE]

NoFiller == [root |-> [exists |-> FALSE, separators |-> 0], overflow_checks |-> FALSE,
             available_space |-> 0, total_written |-> 0, last_space_used |-> U64(0),
             progress |-> NoProgress, exit |-> "none"]
NoDisk == [found |-> FALSE, base |-> 0]
NoHist == [calls |-> 0]
NoCtx == [at |-> "idle"]
NoBus == [ops |-> <<>>, events |-> 0]

\* No operation around the call: secure_wipe_file is called directly.
OpIdle ==
    /\ opPc = "idle"
    /\ opResult = NoResult
    /\ batch = NoBatch
    /\ filler = NoFiller
    /\ disk = NoDisk
    /\ hist = NoHist
    /\ ctx = NoCtx
    /\ bus = NoBus

Init ==
    /\ OpIdle
    /\ fs \in InitialFileSystems
    /\ fs0 = fs
    /\ path = "p"
    /\ passes \in 0 .. MaxPasses
    /\ algorithm \in Algorithms
    /\ pc = "check_symlink"
    /\ result = Running
    /\ cancelled = FALSE
    /\ opCancelled = FALSE
    /\ file = NoHandle
    /\ file_size = 0
    /\ progress = WipeProgressNew(0, 0, algorithm)
    /\ pass = 0
    /\ chunk_start = 0
    /\ elapsed = 0
    /\ emitted = <<>>
    /\ prevPass = 0
    /\ loopGap = None
    /\ ioLog = <<>>
    /\ ioCount = [k \in IoKinds |-> 0]
    /\ sweeps = 0
    /\ cancelCtx = NoCancel
    /\ writesAfterCancel = 0

(* ------------------------------ helpers ------------------------------- *)
\* check_cancelled: the closure reads the flag created at the top of the call.
check_cancelled == cancelled

Logged(e) == IF Len(ioLog) < 4 THEN Append(ioLog, e) ELSE Append(Tail(ioLog), e)
Counted(e) == [ioCount EXCEPT ![e] = @ + 1]

\* Variant: the closure passes every snapshot on to emit_to.
emit_progress_Unguarded(snap) == <<snap, TRUE>>

\* The closure an operation hands to secure_wipe_file, and the worker's own
\* progress_callback: if !cancelled_clone.load(..) { emit_to(.., "wipe_progress", progress) }.
\* The snapshot, and whether it went on to emit_to.
emit_progress(snap) == <<snap, ~opCancelled>>

\* progress_callback(progress.clone())
Emit(snap) ==
    /\ emitted' = emit_progress(snap)
    /\ prevPass' = IF emitted = <<>> THEN 0 ELSE emitted[1].current_pass

Advance(e, d) == Min(e + d, progress_update_interval)

\* `return r`
Return(r) == pc' = "done" /\ result' = r

\* `return Err(r)` once the handle is open: the handle is dropped on the way out.
Fail(r) == Return(r) /\ file' = NoHandle

\* Kinds of failure OpenOptions::open can report.
OpenErrorKinds == {"PermissionDenied", "NotFound", "Other"}
\* Variant: every failure of open passed through as the system reported it.
OpenError_Generic(k) == OsError(k)

\* The error the two open calls map a failure of kind k to.
OpenError(k) == IF k = "PermissionDenied" THEN AccessDenied ELSE OsError(k)

(* ---------------------- secure_wipe_file, step by step ---------------- *)
\* if path.is_symlink() { return Err(..."Cannot wipe symbolic links") }
CheckSymlink ==
    /\ pc = "check_symlink"
    /\ IF is_symlink(fs, path)
          THEN Return(SymlinkRefusal)
          ELSE pc' = "check_exists" /\ UNCHANGED result
    /\ UNCHANGED << fs, fs0, path, passes, algorithm, cancelled, opCancelled, file,
                    file_size, progress, pass, chunk_start, elapsed, emitted, prevPass, ioLog,
                    ioCount, sweeps, cancelCtx, writesAfterCancel >>
    /\ UNCHANGED loopGap
    /\ UNCHANGED opVars

\* Variant: the existence test left out.
CheckExists_Skipped ==
    /\ pc = "check_exists"
    /\ pc' = "check_passes"
    /\ UNCHANGED << fs, fs0, path, passes, algorithm, result, cancelled, opCancelled,
                    file, file_size, progress, pass, chunk_start, elapsed, emitted,
                    prevPass, ioLog, ioCount, sweeps, cancelCtx, writesAfterCancel >>
    /\ UNCHANGED loopGap
    /\ UNCHANGED opVars

\* if !path.exists() { return Err(PathNotFound) }
CheckExists ==
    /\ pc = "check_exists"
    /\ IF ~exists(fs, path)
          THEN Return(PathNotFound)
          ELSE pc' = "check_passes" /\ UNCHANGED result
    /\ UNCHANGED << fs, fs0, path, passes, algorithm, cancelled, opCancelled, file,
                    file_size, progress, pass, chunk_start, elapsed, emitted, prevPass, ioLog,
                    ioCount, sweeps, cancelCtx, writesAfterCancel >>
    /\ UNCHANGED loopGap
    /\ UNCHANGED opVars

\* if passes == 0 { return Err(InvalidPasses) }
CheckPasses ==
    /\ pc = "check_passes"
    /\ IF passes = 0
          THEN Return(InvalidPasses)
          ELSE pc' = "open_probe" /\ UNCHANGED result
    /\ UNCHANGED << fs, fs0, path, passes, algorithm, cancelled, opCancelled, file,
                    file_size, progress, pass, chunk_start, elapsed, emitted, prevPass, ioLog,
                    ioCount, sweeps, cancelCtx, writesAfterCancel >>
    /\ UNCHANGED loopGap
    /\ UNCHANGED opVars

\* The first open, write only; its handle is dropped at once.
OpenProbe ==
    /\ pc = "open_probe"
    /\ \/ /\ exists(fs, path)
          /\ pc' = "open"
          /\ ioLog' = Logged("open")
          /\ UNCHANGED result
       \/ /\ \E k \in OpenErrorKinds : Return(OpenError(k))
          /\ UNCHANGED ioLog
    /\ ioCount' = Counted("open")
    /\ UNCHANGED << fs, fs0, path, passes, algorithm, cancelled, opCancelled, file,
                    file_size, progress, pass, chunk_start, elapsed, emitted, prevPass, sweeps,
                    cancelCtx, writesAfterCancel >>
    /\ UNCHANGED loopGap
    /\ UNCHANGED opVars

\* The second open, read and write: the handle every later step uses.
OpenFile ==
    /\ pc = "open"
    /\ \/ /\ exists(fs, path)
          /\ pc' = "metadata"
          /\ file' = [open |-> TRUE, node |-> Resolve(fs, path), pos |-> 0]
          /\ ioLog' = Logged("open")
          /\ UNCHANGED result
       \/ /\ \E k \in OpenErrorKinds : Return(OpenError(k))
          /\ UNCHANGED << file, ioLog >>
    /\ ioCount' = Counted("open")
    /\ UNCHANGED << fs, fs0, path, passes, algorithm, cancelled, opCancelled,
                    file_size, progress, pass, chunk_start, elapsed, emitted, prevPass, sweeps,
                    cancelCtx, writesAfterCancel >>
    /\ UNCHANGED loopGap
    /\ UNCHANGED opVars

\* file.metadata()?.len(), WipeProgress::new(passes, file_size, ..),
\* last_progress_update = Instant::now()
ReadMetadata ==
    /\ pc = "metadata"
    /\ \/ /\ file_size' = fs[file.node].len
          /\ progress' = WipeProgressNew(passes, fs[file.node].len, algorithm)
          /\ elapsed' = 0
          /\ pass' = 1
          /\ pc' = IF PassCount(algorithm, passes) >= 1 THEN "pass_start" ELSE "finalize"
          /\ ioLog' = Logged("metadata")
          /\ UNCHANGED << result, file >>
       \/ /\ Fail(OsError("Other"))
          /\ UNCHANGED << file_size, progress, elapsed, pass, ioLog >>
    /\ ioCount' = Counted("metadata")
    /\ UNCHANGED << fs, fs0, path, passes, algorithm, cancelled, opCancelled,
                    chunk_start, emitted, prevPass, sweeps, cancelCtx, writesAfterCancel >>
    /\ UNCHANGED loopGap
    /\ UNCHANGED opVars

\* Head of one pass.  NistClear: update(0, ..), callback.  The other arms:
\* check_cancelled, current_pass = pass, update(0, desc), callback, seek to 0.
PassStart ==
    /\ pc = "pass_start"
    /\ IF algorithm # "NistClear" /\ check_cancelled
          THEN /\ Fail(CancelledErr)
               /\ UNCHANGED << progress, emitted, prevPass, chunk_start, ioLog, ioCount >>
          ELSE LET pr1 == IF algorithm = "NistClear" THEN progress
                          ELSE [progress EXCEPT !.current_pass = pass]
                   pr2 == Update(pr1, 0, PassDesc(algorithm, pass, passes))
               IN  /\ progress' = pr2
                   /\ Emit(pr2)
                   /\ IF algorithm = "NistClear"
                         THEN /\ pc' = IF file_size > 0 THEN "chunk" ELSE "sync"
                              /\ chunk_start' = 0
                              /\ UNCHANGED << result, file, ioLog, ioCount >>
                         ELSE /\ ioCount' = Counted("seek")
                              /\ \/ /\ file' = [file EXCEPT !.pos = 0]
                                    /\ chunk_start' = 0
                                    /\ pc' = IF file_size > 0 THEN "chunk" ELSE "sync"
                                    /\ ioLog' = Logged("seek")
                                    /\ UNCHANGED result
                                 \/ /\ Fail(OsError("Other"))
                                    /\ UNCHANGED << chunk_start, ioLog >>
    /\ UNCHANGED << fs, fs0, path, passes, algorithm, cancelled, opCancelled,
                    file_size, pass, elapsed, sweeps, cancelCtx, writesAfterCancel >>
    /\ UNCHANGED loopGap
    /\ UNCHANGED opVars
\* Variant: a snapshot after every chunk, whatever the time since the last one.
ProgressDue_EveryChunk(now) == TRUE
\* if last_progress_update.elapsed() >= progress_update_interval
ProgressDue(now) == now >= progress_update_interval

\* Variant: every write is a whole buffer, the last one of a pass included.
WriteChunk_Unclipped ==
    /\ pc = "chunk"
    /\ IF check_cancelled
          THEN /\ Fail(CancelledErr)
               /\ UNCHANGED << fs, progress, emitted, prevPass, loopGap, chunk_start, elapsed, ioLog,
                               ioCount, writesAfterCancel >>
          ELSE LET chunk_size == BUFFER_SIZE
               IN  /\ ioCount' = Counted("write")
                   /\ writesAfterCancel' =
                          IF opCancelled THEN Min(writesAfterCancel + 1, 2)
                          ELSE writesAfterCancel
                   /\ \/ \E d \in Durations :
                            LET now == Advance(elapsed, d)
                                pr == Update(progress, chunk_start + chunk_size,
                                             ChunkDesc(algorithm, pass, passes))
                            IN  /\ fs' = WriteAt(fs, file.node, file.pos, chunk_size,
                                                 PassFill(algorithm, pass))
                                /\ file' = [file EXCEPT !.pos = @ + chunk_size]
                                /\ ioLog' = Logged("write")
                                /\ IF ProgressDue(now)
                                      THEN /\ progress' = pr
                                           /\ Emit(pr)
                                           /\ elapsed' = 0
                                           /\ loopGap' = now
                                      ELSE /\ elapsed' = now
                                           /\ UNCHANGED << progress, emitted, prevPass, loopGap >>
                                /\ IF chunk_start + BUFFER_SIZE < file_size
                                      THEN /\ chunk_start' = chunk_start + BUFFER_SIZE
                                           /\ UNCHANGED pc
                                      ELSE /\ pc' = "sync"
                                           /\ UNCHANGED chunk_start
                                /\ UNCHANGED result
                      \/ \* write_all failed: nothing, or only part, reached the file
                         /\ \E f \in {fs, WriteAt(fs, file.node, file.pos, chunk_size, PartialFill)} :
                               fs' = f
                         /\ Fail(OsError("Other"))
                         /\ UNCHANGED << progress, emitted, prevPass, loopGap, chunk_start, elapsed,
                                         ioLog >>
    /\ UNCHANGED << fs0, path, passes, algorithm, cancelled, opCancelled, file_size,
                    pass, sweeps, cancelCtx >>
    /\ UNCHANGED opVars

\* One iteration of the chunk loop: check_cancelled, write_all of
\* min(BUFFER_SIZE, file_size - chunk_start) bytes, throttled snapshot.
WriteChunk ==
    /\ pc = "chunk"
    /\ IF check_cancelled
          THEN /\ Fail(CancelledErr)
               /\ UNCHANGED << fs, progress, emitted, prevPass, loopGap, chunk_start, elapsed, ioLog,
                               ioCount, writesAfterCancel >>
          ELSE LET chunk_size == Min(BUFFER_SIZE, file_size - chunk_start)
               IN  /\ ioCount' = Counted("write")
                   /\ writesAfterCancel' =
                          IF opCancelled THEN Min(writesAfterCancel + 1, 2)
                          ELSE writesAfterCancel
                   /\ \/ \E d \in Durations :
                            LET now == Advance(elapsed, d)
                                pr == Update(progress, chunk_start + chunk_size,
                                             ChunkDesc(algorithm, pass, passes))
                            IN  /\ fs' = WriteAt(fs, file.node, file.pos, chunk_size,
                                                 PassFill(algorithm, pass))
                                /\ file' = [file EXCEPT !.pos = @ + chunk_size]
                                /\ ioLog' = Logged("write")
                                /\ IF ProgressDue(now)
                                      THEN /\ progress' = pr
                                           /\ Emit(pr)
                                           /\ elapsed' = 0
                                           /\ loopGap' = now
                                      ELSE /\ elapsed' = now
                                           /\ UNCHANGED << progress, emitted, prevPass, loopGap >>
                                /\ IF chunk_start + BUFFER_SIZE < file_size
                                      THEN /\ chunk_start' = chunk_start + BUFFER_SIZE
                                           /\ UNCHANGED pc
                                      ELSE /\ pc' = "sync"
                                           /\ UNCHANGED chunk_start
                                /\ UNCHANGED result
                      \/ \* write_all failed: nothing, or only part, reached the file
                         /\ \E f \in {fs, WriteAt(fs, file.node, file.pos, chunk_size, PartialFill)} :
                               fs' = f
                         /\ Fail(OsError("Other"))
                         /\ UNCHANGED << progress, emitted, prevPass, loopGap, chunk_start, elapsed,
                                         ioLog >>
    /\ UNCHANGED << fs0, path, passes, algorithm, cancelled, opCancelled, file_size,
                    pass, sweeps, cancelCtx >>
    /\ UNCHANGED opVars
\* Variant: the outcome of sync_all discarded (let _ = file.sync_all()).
SyncPass_Unchecked ==
    /\ pc = "sync"
    /\ ioCount' = Counted("sync")
    /\ \E d \in Durations :
          /\ elapsed' = Advance(elapsed, d)
          /\ \/ sweeps' = sweeps + 1 /\ ioLog' = Logged("sync")
             \/ UNCHANGED << sweeps, ioLog >>
          /\ IF pass < PassCount(algorithm, passes)
                THEN pass' = pass + 1 /\ pc' = "pass_start"
                ELSE pc' = "finalize" /\ UNCHANGED pass
          /\ UNCHANGED << result, file >>
    /\ UNCHANGED << fs, fs0, path, passes, algorithm, cancelled, opCancelled,
                    file_size, progress, chunk_start, emitted, prevPass, cancelCtx,
                    writesAfterCancel >>
    /\ UNCHANGED loopGap
    /\ UNCHANGED opVars

\* file.sync_all()? at the end of a pass, then the next iteration of the
\* pass loop or the code after it.
SyncPass ==
    /\ pc = "sync"
    /\ ioCount' = Counted("sync")
    /\ \/ \E d \in Durations :
             /\ elapsed' = Advance(elapsed, d)
             /\ sweeps' = sweeps + 1
             /\ ioLog' = Logged("sync")
             /\ IF pass < PassCount(algorithm, passes)
                   THEN pass' = pass + 1 /\ pc' = "pass_start"
                   ELSE pc' = "finalize" /\ UNCHANGED pass
             /\ UNCHANGED << result, file >>
       \/ /\ Fail(OsError("Other"))
          /\ UNCHANGED << elapsed, sweeps, ioLog, pass >>
    /\ UNCHANGED << fs, fs0, path, passes, algorithm, cancelled, opCancelled,
                    file_size, progress, chunk_start, emitted, prevPass, cancelCtx,
                    writesAfterCancel >>
    /\ UNCHANGED loopGap
    /\ UNCHANGED opVars
\* Variant: the finalizing snapshot keeps the byte count of the one before.
Finalize_KeepBytes ==
    /\ pc = "finalize"
    /\ IF check_cancelled
          THEN /\ Fail(CancelledErr)
               /\ UNCHANGED << progress, emitted, prevPass >>
          ELSE LET pr == Update(progress, progress.bytes_processed, FinalDesc(algorithm))
               IN  /\ progress' = pr
                   /\ Emit(pr)
                   /\ pc' = "set_len"
                   /\ UNCHANGED << result, file >>
    /\ UNCHANGED << fs, fs0, path, passes, algorithm, cancelled, opCancelled,
                    file_size, pass, chunk_start, elapsed, ioLog, ioCount, sweeps,
                    cancelCtx, writesAfterCancel >>
    /\ UNCHANGED loopGap
    /\ UNCHANGED opVars

\* After the last pass: check_cancelled, update(file_size, "Finalizing .."),
\* progress_callback(progress).
Finalize ==
    /\ pc = "finalize"
    /\ IF check_cancelled
          THEN /\ Fail(CancelledErr)
               /\ UNCHANGED << progress, emitted, prevPass >>
          ELSE LET pr == Update(progress, file_size, FinalDesc(algorithm))
               IN  /\ progress' = pr
                   /\ Emit(pr)
                   /\ pc' = "set_len"
                   /\ UNCHANGED << result, file >>
    /\ UNCHANGED << fs, fs0, path, passes, algorithm, cancelled, opCancelled,
                    file_size, pass, chunk_start, elapsed, ioLog, ioCount, sweeps,
                    cancelCtx, writesAfterCancel >>
    /\ UNCHANGED loopGap
    /\ UNCHANGED opVars

\* Variant: the outcome of set_len discarded (let _ = file.set_len(0)).
Truncate_IgnoreError ==
    /\ pc = "set_len"
    /\ IF check_cancelled
          THEN /\ Fail(CancelledErr)
               /\ UNCHANGED << fs, ioLog, ioCount >>
          ELSE /\ ioCount' = Counted("set_len")
               /\ pc' = "close"
               /\ UNCHANGED << result, file >>
               /\ \/ /\ fs' = SetLenZero(fs, file.node)
                     /\ ioLog' = Logged("set_len")
                  \/ UNCHANGED << fs, ioLog >>
    /\ UNCHANGED << fs0, path, passes, algorithm, cancelled, opCancelled, file_size,
                    progress, pass, chunk_start, elapsed, emitted, prevPass, sweeps,
                    cancelCtx, writesAfterCancel >>
    /\ UNCHANGED loopGap
    /\ UNCHANGED opVars

\* check_cancelled()?; file.set_len(0)?
Truncate ==
    /\ pc = "set_len"
    /\ IF check_cancelled
          THEN /\ Fail(CancelledErr)
               /\ UNCHANGED << fs, ioLog, ioCount >>
          ELSE /\ ioCount' = Counted("set_len")
               /\ \/ /\ fs' = SetLenZero(fs, file.node)
                     /\ ioLog' = Logged("set_len")
                     /\ pc' = "close"
                     /\ UNCHANGED << result, file >>
                  \/ /\ Fail(OsError("Other"))
                     /\ UNCHANGED << fs, ioLog >>
    /\ UNCHANGED << fs0, path, passes, algorithm, cancelled, opCancelled, file_size,
                    progress, pass, chunk_start, elapsed, emitted, prevPass, sweeps, cancelCtx,
                    writesAfterCancel >>
    /\ UNCHANGED loopGap
    /\ UNCHANGED opVars

\* drop(file)
CloseFile ==
    /\ pc = "close"
    /\ file' = NoHandle
    /\ ioLog' = Logged("close")
    /\ ioCount' = Counted("close")
    /\ pc' = "remove"
    /\ UNCHANGED << fs, fs0, path, passes, algorithm, result, cancelled, opCancelled,
                    file_size, progress, pass, chunk_start, elapsed, emitted, prevPass, sweeps,
                    cancelCtx, writesAfterCancel >>
    /\ UNCHANGED loopGap
    /\ UNCHANGED opVars

\* Variant: the outcome of remove_file discarded (let _ = fs::remove_file(path)).
RemoveFile_IgnoreError ==
    /\ pc = "remove"
    /\ ioCount' = Counted("remove")
    /\ Return(Ok)
    /\ \/ /\ fs' = Unlink(fs, path)
          /\ ioLog' = Logged("remove")
       \/ UNCHANGED << fs, ioLog >>
    /\ UNCHANGED << fs0, path, passes, algorithm, cancelled, opCancelled, file,
                    file_size, progress, pass, chunk_start, elapsed, emitted, prevPass,
                    sweeps, cancelCtx, writesAfterCancel >>
    /\ UNCHANGED loopGap
    /\ UNCHANGED opVars

\* fs::remove_file(path)?; Ok(())
RemoveFile ==
    /\ pc = "remove"
    /\ ioCount' = Counted("remove")
    /\ \/ /\ fs' = Unlink(fs, path)
          /\ ioLog' = Logged("remove")
          /\ Return(Ok)
       \/ /\ Return(OsError("Other"))
          /\ UNCHANGED << fs, ioLog >>
    /\ UNCHANGED << fs0, path, passes, algorithm, cancelled, opCancelled, file,
                    file_size, progress, pass, chunk_start, elapsed, emitted, prevPass, sweeps,
                    cancelCtx, writesAfterCancel >>
    /\ UNCHANGED loopGap
    /\ UNCHANGED opVars

(* --------------------------- the operation ---------------------------- *)
\* The cancel_operation listener of the running operation:
\* cancel_for_listener.store(true)
CancelOperation ==
    /\ pc # "done"
    /\ ~opCancelled
    /\ opCancelled' = TRUE
    /\ cancelCtx' = Phase(pc)
    /\ UNCHANGED << fs, fs0, path, passes, algorithm, pc, result, cancelled, file,
                    file_size, progress, pass, chunk_start, elapsed, emitted, prevPass, ioLog,
                    ioCount, sweeps, writesAfterCancel >>
    /\ UNCHANGED loopGap
    /\ UNCHANGED opVars

Next ==
    \/ CheckSymlink
    \/ CheckExists
    \/ CheckPasses
    \/ OpenProbe
    \/ OpenFile
    \/ ReadMetadata
    \/ PassStart
    \/ WriteChunk
    \/ SyncPass
    \/ Finalize
    \/ Truncate
    \/ CloseFile
    \/ RemoveFile
    \/ CancelOperation

Spec == Init /\ [][Next]_vars

(* ----------------------------- wipe_files ----------------------------- *)
\* Largest number of paths handed to one wipe_files call.
MaxBatch == 2

\* impl Display for WipeError
ErrText(r) ==
    CASE r.tag = "PathNotFound"  -> "Path not found"
      [] r.tag = "InvalidPasses" -> "Invalid number of passes"
      [] r.tag = "Io"            -> "IO error: " \o r.msg

\* WipeResult { success, message }; form, total_files and errors keep the
\* parts the message was formatted from.
WipeResult(success, message, form, n, errs) ==
    [kind |-> "result", success |-> success, message |-> message, form |-> form,
     total_files |-> n, errors |-> errs]

\* cancelled_wipe_result()
cancelled_wipe_result ==
    WipeResult(FALSE, "Operation cancelled by user", "cancelled", 0, <<>>)

\* Vec<String>::join("\n")
RECURSIVE JoinLines(_)
JoinLines(lines) ==
    IF lines = <<>> THEN ""
    ELSE IF Len(lines) = 1 THEN lines[1]
    ELSE lines[1] \o "\n" \o JoinLines(Tail(lines))

\* The sequences that list every element of the set S once.
Orderings(S) ==
    {o \in [1 .. Cardinality(S) -> S] : \A x \in S : \E i \in 1 .. Cardinality(S) : o[i] = x}

\* WalkDir::new(path), errors dropped, entries whose own type is a regular
\* file kept: links are not followed.
WalkFiles(f, p) == {c \in Children(p) : f[c].kind = "file"}

\* fs::remove_dir_all
RemoveDirAll(f, p) ==
    [x \in Paths |-> IF x = p \/ x \in Children(p) THEN NoNode ELSE f[x]]

\* The first statements of a secure_wipe_file call on p: fresh locals, and a
\* fresh flag for check_cancelled.
BeginCall(p) ==
    /\ path' = p
    /\ pc' = "check_symlink"
    /\ result' = Running
    /\ cancelled' = FALSE
    /\ file' = NoHandle
    /\ file_size' = 0
    /\ progress' = WipeProgressNew(0, 0, algorithm)
    /\ pass' = 0
    /\ chunk_start' = 0
    /\ elapsed' = 0
    /\ emitted' = <<>>
    /\ prevPass' = 0
    /\ loopGap' = None
    /\ ioLog' = <<>>
    /\ ioCount' = [k \in IoKinds |-> 0]
    /\ sweeps' = 0
    /\ fs0' = fs

\* The call has returned: its locals are gone.
EndCall ==
    /\ path' = ""
    /\ pc' = "idle"
    /\ result' = Running
    /\ cancelled' = FALSE
    /\ file' = NoHandle
    /\ file_size' = 0
    /\ progress' = WipeProgressNew(0, 0, algorithm)
    /\ pass' = 0
    /\ chunk_start' = 0
    /\ elapsed' = 0
    /\ emitted' = <<>>
    /\ prevPass' = 0
    /\ loopGap' = None
    /\ ioLog' = <<>>
    /\ ioCount' = [k \in IoKinds |-> 0]
    /\ sweeps' = 0
    /\ fs0' = fs

\* `return Ok(r)` from the worker closure of the command.
OpReturn(r) == opPc' = "returned" /\ opResult' = r

\* Sizes of the regular files a batch starts with.
BatchFileSizes == {1}

\* Pass counts and algorithms a batch is run with.
BatchPasses == {0, 1}

BatchAlgorithms == {"NistClear", "Random"}

\* File systems a batch can start from: "p" missing or a regular file, "d"
\* missing or a directory holding up to two entries, one of them possibly a
\* symbolic link.
BatchFileSystems ==
    {[x \in Paths |->
         CASE x = "p"   -> p
           [] x = "d"   -> d
           [] x = "d/a" -> IF d = DirNode THEN a ELSE NoNode
           [] x = "d/b" -> IF d = DirNode THEN b ELSE NoNode
           [] OTHER     -> NoNode] :
        p \in {NoNode} \cup {FileNode(n) : n \in BatchFileSizes},
        d \in {NoNode, DirNode},
        a \in {NoNode, FileNode(1)},
        b \in {NoNode, FileNode(1), SymlinkNode}}

\* paths: Vec<String>, here up to MaxBatch distinct paths in any order.
BatchInputs ==
    {q \in UNION {[1 .. n -> {"p", "d"}] : n \in 1 .. MaxBatch} :
        \A i, j \in 1 .. Len(q) : q[i] = q[j] => i = j}

\* The regular files a batch over the paths q has to wipe in the file system f.
FilesOf(f, q) ==
    UNION {IF is_file(f, q[i]) THEN {q[i]}
           ELSE IF is_dir(f, q[i]) THEN WalkFiles(f, q[i])
           ELSE {} : i \in 1 .. Len(q)}

\* What has happened in the batch so far: the files it started with, the
\* paths its loop has reached, the files handed to secure_wipe_file, the calls that returned Ok, the items
\* that failed, and what happened after the cancel flag was set.
BatchHist ==
    [todo |-> {}, attempted |-> {}, called |-> {}, okCalls |-> 0, failedItems |-> 0,
     callsAfterCancel |-> 0, rmdirAfterCancel |-> FALSE]

\* wipe_files has registered its listener and spawned the worker.
InitBatch ==
    /\ fs \in BatchFileSystems
    /\ fs0 = fs
    /\ passes \in BatchPasses
    /\ algorithm \in BatchAlgorithms
    /\ path = ""
    /\ pc = "idle"
    /\ result = Running
    /\ cancelled = FALSE
    /\ opCancelled = FALSE
    /\ file = NoHandle
    /\ file_size = 0
    /\ progress = WipeProgressNew(0, 0, algorithm)
    /\ pass = 0
    /\ chunk_start = 0
    /\ elapsed = 0
    /\ emitted = <<>>
    /\ prevPass = 0
    /\ loopGap = None
    /\ ioLog = <<>>
    /\ ioCount = [k \in IoKinds |-> 0]
    /\ sweeps = 0
    /\ cancelCtx = NoCancel
    /\ writesAfterCancel = 0
    /\ opPc = "wf_loop"
    /\ opResult = NoResult
    /\ batch \in {[NoBatch EXCEPT !.paths = q, !.queue = q] : q \in BatchInputs}
    /\ filler = NoFiller
    /\ disk = NoDisk
    /\ ctx = NoCtx
    /\ bus = NoBus
    /\ hist = [BatchHist EXCEPT !.todo = FilesOf(fs, batch.paths)]

\* A match that counts an Err of secure_wipe_file without describing it.
Tally_Silent(p) ==
    IF result = Ok
       THEN /\ batch' = [batch EXCEPT !.total_files = @ + 1]
            /\ hist' = [hist EXCEPT !.okCalls = @ + 1]
       ELSE /\ UNCHANGED batch
            /\ hist' = [hist EXCEPT !.failedItems = @ + 1]

\* What the match on the result of secure_wipe_file does for path p.
Tally(p) ==
    IF result = Ok
       THEN /\ batch' = [batch EXCEPT !.total_files = @ + 1]
            /\ hist' = [hist EXCEPT !.okCalls = @ + 1]
       ELSE /\ batch' = [batch EXCEPT !.failed_files =
                             Append(@, "Failed to wipe " \o p \o ": " \o ErrText(result))]
            /\ hist' = [hist EXCEPT !.failedItems = @ + 1]

\* Head of `for path_str in paths_for_task`: the cancel check, the existence
\* test, and the branch on is_file / is_dir.
WfNextPath ==
    /\ opPc = "wf_loop"
    /\ batch.queue # <<>>
    /\ LET p == Head(batch.queue)
       IN  IF opCancelled
              THEN /\ OpReturn(cancelled_wipe_result)
                   /\ UNCHANGED << batch, hist, callVars >>
              ELSE IF ~exists(fs, p)
              THEN /\ batch' = [batch EXCEPT !.queue = Tail(@), !.cur = p,
                                     !.failed_files = Append(@, "Path not found: " \o p)]
                   /\ hist' = [hist EXCEPT !.attempted = @ \cup {p},
                                           !.failedItems = @ + 1]
                   /\ UNCHANGED << opPc, opResult, callVars >>
              ELSE IF is_file(fs, p)
              THEN /\ batch' = [batch EXCEPT !.queue = Tail(@), !.cur = p]
                   /\ hist' = [hist EXCEPT !.attempted = @ \cup {p},
                                           !.called = @ \cup {p},
                                           !.callsAfterCancel =
                                               IF opCancelled THEN 1 ELSE @]
                   /\ BeginCall(p)
                   /\ opPc' = "wf_file"
                   /\ UNCHANGED opResult
              ELSE \E files \in Orderings(WalkFiles(fs, p)) :
                   /\ batch' = [batch EXCEPT !.queue = Tail(@), !.cur = p,
                                             !.entries = files]
                   /\ hist' = [hist EXCEPT !.attempted = @ \cup {p}]
                   /\ opPc' = "wf_dir"
                   /\ UNCHANGED << opResult, callVars >>
    /\ UNCHANGED << fs, passes, algorithm, opCancelled, cancelCtx, writesAfterCancel,
                    filler, disk, ctx, bus >>

\* secure_wipe_file(path, ..) returned for a path that is a file.
WfFileReturn ==
    /\ opPc = "wf_file"
    /\ pc = "done"
    /\ Tally(batch.cur)
    /\ opPc' = "wf_loop"
    /\ UNCHANGED << fs, passes, algorithm, opCancelled, cancelCtx, writesAfterCancel,
                    opResult, filler, disk, ctx, bus >>
    /\ EndCall

\* Head of `for entry in files`: the cancel check, then secure_wipe_file on
\* the entry.
WfDirEntry ==
    /\ opPc = "wf_dir"
    /\ batch.entries # <<>>
    /\ IF opCancelled
          THEN /\ OpReturn(cancelled_wipe_result)
               /\ UNCHANGED << batch, callVars >>
               /\ UNCHANGED hist
          ELSE /\ BeginCall(Head(batch.entries))
               /\ batch' = [batch EXCEPT !.entries = Tail(@)]
               /\ hist' = [hist EXCEPT !.called = @ \cup {Head(batch.entries)},
                                       !.callsAfterCancel =
                                           IF opCancelled THEN 1 ELSE @]
               /\ opPc' = "wf_entry"
               /\ UNCHANGED opResult
    /\ UNCHANGED << fs, passes, algorithm, opCancelled, cancelCtx, writesAfterCancel,
                    filler, disk, ctx, bus >>

\* secure_wipe_file(entry.path(), ..) returned for an entry of the directory.
WfEntryReturn ==
    /\ opPc = "wf_entry"
    /\ pc = "done"
    /\ Tally(path)
    /\ opPc' = "wf_dir"
    /\ UNCHANGED << fs, passes, algorithm, opCancelled, cancelCtx, writesAfterCancel,
                    opResult, filler, disk, ctx, bus >>
    /\ EndCall

\* After the entries: fs::remove_dir_all(path), a failure pushed to failed_files.
WfRemoveDir ==
    /\ opPc = "wf_dir"
    /\ batch.entries = <<>>
    /\ \/ /\ fs' = RemoveDirAll(fs, batch.cur)
          /\ hist' = [hist EXCEPT !.rmdirAfterCancel =
                           @ \/ (opCancelled /\ hist.called \cap Children(batch.cur) # {})]
          /\ UNCHANGED batch
       \/ /\ batch' = [batch EXCEPT !.failed_files =
                           Append(@, "Failed to remove directory " \o batch.cur \o ": os")]
          /\ hist' = [hist EXCEPT !.failedItems = @ + 1]
          /\ UNCHANGED fs
    /\ opPc' = "wf_loop"
    /\ UNCHANGED << passes, algorithm, opCancelled, cancelCtx, writesAfterCancel,
                    opResult, filler, disk, ctx, bus, callVars >>

\* The outcome built with the failure list looked at before the cancel flag.
WfOutcome_FailuresFirst ==
    /\ opPc = "wf_loop"
    /\ batch.queue = <<>>
    /\ IF batch.failed_files # <<>>
          THEN OpReturn(WipeResult(FALSE,
                   "Wiped " \o ToString(batch.total_files) \o " files with "
                       \o ToString(Len(batch.failed_files)) \o " errors:\n"
                       \o JoinLines(batch.failed_files),
                   "partial", batch.total_files, batch.failed_files))
          ELSE IF opCancelled
          THEN OpReturn(cancelled_wipe_result)
          ELSE OpReturn(WipeResult(TRUE,
                   "Successfully wiped " \o ToString(batch.total_files) \o " files",
                   "success", batch.total_files, <<>>))
    /\ UNCHANGED << fs, passes, algorithm, opCancelled, cancelCtx, writesAfterCancel,
                    batch, filler, disk, ctx, bus, hist, callVars >>

\* After the loop: the cancelled result, the success result, or the count of
\* files wiped with the failure descriptions joined by newlines.
WfOutcome ==
    /\ opPc = "wf_loop"
    /\ batch.queue = <<>>
    /\ IF opCancelled
          THEN OpReturn(cancelled_wipe_result)
          ELSE IF batch.failed_files = <<>>
          THEN OpReturn(WipeResult(TRUE,
                   "Successfully wiped " \o ToString(batch.total_files) \o " files",
                   "success", batch.total_files, <<>>))
          ELSE OpReturn(WipeResult(FALSE,
                   "Wiped " \o ToString(batch.total_files) \o " files with "
                       \o ToString(Len(batch.failed_files)) \o " errors:\n"
                       \o JoinLines(batch.failed_files),
                   "partial", batch.total_files, batch.failed_files))
    /\ UNCHANGED << fs, passes, algorithm, opCancelled, cancelCtx, writesAfterCancel,
                    batch, filler, disk, ctx, bus, hist, callVars >>

\* The cancel_operation listener registered by wipe_files.
WfCancel ==
    /\ opPc # "returned"
    /\ ~opCancelled
    /\ opCancelled' = TRUE
    /\ UNCHANGED << fs, passes, algorithm, cancelCtx, writesAfterCancel, opVars, callVars >>

\* One step of the secure_wipe_file call in progress.
WipeStep ==
    \/ CheckSymlink
    \/ CheckExists
    \/ CheckPasses
    \/ OpenProbe
    \/ OpenFile
    \/ ReadMetadata
    \/ PassStart
    \/ WriteChunk
    \/ SyncPass
    \/ Finalize
    \/ Truncate
    \/ CloseFile
    \/ RemoveFile

NextBatch ==
    \/ WipeStep
    \/ WfNextPath
    \/ WfFileReturn
    \/ WfDirEntry
    \/ WfEntryReturn
    \/ WfRemoveDir
    \/ WfOutcome
    \/ WfCancel

SpecBatch == InitBatch /\ [][NextBatch]_vars

(* ----------------------- execute_free_space_wipe ---------------------- *)
\* Largest number of whole chunks the volume has room for.
MaxFillChunks == 10

chunk_size == 1024 * 1024

\* The fill loop syncs each time this many chunks have been written.
sync_every == 10

\* free_space_error_result(message)
free_space_error_result(message) == WipeResult(FALSE, message, "error", 0, <<>>)

\* Err(String) of the command: the disk lookup failed, or the worker panicked
\* and the join error was mapped to a string.
CommandErr(message) == [kind |-> "err", message |-> message]

\* Variant: validation that only looks at whether the path exists.
validate_exists_only(root) ==
    IF ~root.exists THEN "Path not found" ELSE "ok"

\* validate_drive_path_internal: the Display text of the error, or "ok".
validate_drive_path_internal(root) ==
    IF ~root.exists THEN "Path not found"
    ELSE IF root.separators # 1 THEN "Selected path is not a drive root"
    ELSE "ok"

\* disk.available_space(): the room left beside the temp file.
AvailableNow(f) == disk.base - f[TempFile].len

\* available_space - current_available on u64.
SpaceUsed(available_space, current_available) ==
    IF available_space >= current_available
       THEN U64(available_space - current_available)
       ELSE Wrapped(current_available - available_space)

\* Bytes a failing write_all has put into the file before it failed: on a
\* full volume nothing or what was left of it, nothing otherwise.
PartialWrites(kind, free) == IF kind = "StorageFull" THEN {0, free} ELSE {0}

\* Sizes of a temp file left behind by an earlier run.
StaleSizes == {chunk_size \div 2}

\* Room on the volume when no temp file is there.
DiskBases == {0, chunk_size \div 2, chunk_size + chunk_size \div 2, MaxFillChunks * chunk_size}

\* Pass counts and algorithms a free-space wipe is run with.
FreePasses == {0, 1}

FreeAlgorithms == {"NistClear", "Random"}

\* What has happened in the operation so far.
FreeHist ==
    [created |-> FALSE, wroteFill |-> FALSE, staleThere |-> FALSE, staleRemoved |-> FALSE,
     cancelInLoop |-> FALSE, overwriteEntered |-> FALSE, overwrite |-> "none",
     writeFail |-> "none", removeFailed |-> FALSE, fillBurst |-> FALSE,
     probe |-> "none"]

\* execute_free_space_wipe has registered its listener and spawned the worker.
InitFree ==
    /\ \E base \in DiskBases, found \in BOOLEAN :
          /\ disk = [found |-> found, base |-> base]
          /\ fs \in {[x \in Paths |-> NoNode]}
                      \cup {[x \in Paths |-> IF x = TempFile THEN FileNode(n) ELSE NoNode] :
                               n \in {m \in StaleSizes : m <= base}}
    /\ fs0 = fs
    /\ passes \in FreePasses
    /\ algorithm \in FreeAlgorithms
    /\ path = ""
    /\ pc = "idle"
    /\ result = Running
    /\ cancelled = FALSE
    /\ opCancelled = FALSE
    /\ file = NoHandle
    /\ file_size = 0
    /\ progress = WipeProgressNew(0, 0, algorithm)
    /\ pass = 0
    /\ chunk_start = 0
    /\ elapsed = 0
    /\ emitted = <<>>
    /\ prevPass = 0
    /\ loopGap = None
    /\ ioLog = <<>>
    /\ ioCount = [k \in IoKinds |-> 0]
    /\ sweeps = 0
    /\ cancelCtx = NoCancel
    /\ writesAfterCancel = 0
    /\ opPc = "fs_validate"
    /\ opResult = NoResult
    /\ batch = NoBatch
    /\ filler \in {[NoFiller EXCEPT !.root = [exists |-> e, separators |-> n],
                                    !.overflow_checks = o] :
                      e \in BOOLEAN, n \in 0 .. 2, o \in BOOLEAN}
    /\ hist = [FreeHist EXCEPT !.staleThere = exists(fs, TempFile)]
    /\ ctx = NoCtx
    /\ bus = NoBus

\* The progress_callback of the worker closure.
FillEmit(snap) == Emit(snap)

\* A u64 as the snapshot carries it; a wrapped difference 2^64 - v is written
\* -v (its two's-complement reading).
AsBytes(u) == IF u.wrapped THEN 0 - u.v ELSE u.v

\* "Validate again just to be safe".
FsValidate ==
    /\ opPc = "fs_validate"
    /\ IF validate_drive_path_internal(filler.root) # "ok"
          THEN OpReturn(free_space_error_result(validate_drive_path_internal(filler.root)))
          ELSE opPc' = "fs_disk" /\ UNCHANGED opResult
    /\ UNCHANGED << fs, passes, algorithm, opCancelled, cancelCtx, writesAfterCancel,
                    batch, filler, disk, ctx, bus, hist, callVars >>

\* The disk lookup, the first reading of the free space, and the first
\* snapshot: WipeProgress::new(passes, 0, ..) with the free space as estimate.
FsDiskInfo ==
    /\ opPc = "fs_disk"
    /\ IF ~disk.found
          THEN /\ OpReturn(CommandErr("Could not find disk information"))
               /\ UNCHANGED filler
               /\ UNCHANGED << emitted, prevPass >>
          ELSE LET pr == Update([WipeProgressNew(passes, 0, algorithm)
                                    EXCEPT !.estimated_total_bytes = AvailableNow(fs)],
                                0, "Filling drive space")
               IN  /\ filler' = [filler EXCEPT !.available_space = AvailableNow(fs),
                                               !.progress = pr]
                   /\ FillEmit(pr)
                   /\ opPc' = "fs_stale"
                   /\ UNCHANGED opResult
    /\ UNCHANGED << fs, passes, algorithm, opCancelled, cancelCtx, writesAfterCancel,
                    batch, disk, ctx, bus, hist, callLocals >>

\* Variant: a temp file left by an earlier run is not looked for.
FsRemoveStale_Skip ==
    /\ opPc = "fs_stale"
    /\ opPc' = "fs_create"
    /\ UNCHANGED << fs, passes, algorithm, opCancelled, cancelCtx, writesAfterCancel,
                    opResult, batch, filler, disk, ctx, bus, hist, callVars >>

\* if temp_file_path.exists() { update(0, ..); callback; fs::remove_file(..) }
FsRemoveStale ==
    /\ opPc = "fs_stale"
    /\ IF exists(fs, TempFile)
          THEN LET pr == Update(filler.progress, 0, "Cleaning up previous temporary file")
               IN  /\ filler' = [filler EXCEPT !.progress = pr]
                   /\ FillEmit(pr)
                   /\ \/ /\ fs' = Unlink(fs, TempFile)
                         /\ hist' = [hist EXCEPT !.staleRemoved = TRUE]
                         /\ opPc' = "fs_create"
                         /\ UNCHANGED opResult
                      \/ /\ OpReturn(free_space_error_result(
                                "Failed to remove existing temporary file: os"))
                         /\ UNCHANGED << fs, hist >>
          ELSE /\ opPc' = "fs_create"
               /\ UNCHANGED << fs, hist, opResult, filler, emitted, prevPass >>
    /\ UNCHANGED << passes, algorithm, opCancelled, cancelCtx, writesAfterCancel,
                    batch, disk, ctx, bus, callLocals >>

\* OpenOptions::new().write(true).create(true).open(&temp_file_path): a file
\* that is there already is opened as it is.
FsCreate ==
    /\ opPc = "fs_create"
    /\ \/ /\ fs' = IF fs[TempFile].kind = "file" THEN fs
                   ELSE [fs EXCEPT ![TempFile] = FileNode(0)]
          /\ hist' = [hist EXCEPT !.created = TRUE]
          /\ opPc' = "fs_loop"
          /\ UNCHANGED opResult
       \/ /\ OpReturn(free_space_error_result("Failed to create temporary file: os"))
          /\ UNCHANGED << fs, hist >>
    /\ UNCHANGED << passes, algorithm, opCancelled, cancelCtx, writesAfterCancel,
                    batch, filler, disk, ctx, bus, callVars >>

\* The worker panicked; the join error becomes the command's Err.
Panic == OpReturn(CommandErr("wipe_free_space task join error"))

\* What the re-query of the free space came to: not due yet, the disk found,
\* or no disk whose mount point leads the path.
ProbeOutcomes == {"none", "found", "missed"}
\* Variant: a re-query that does not find the disk ends the operation.
FsLoopHead_AbortOnMiss ==
    /\ opPc = "fs_loop"
    /\ IF opCancelled
          THEN /\ \/ fs' = Unlink(fs, TempFile) /\ UNCHANGED hist
                  \/ fs' = fs /\ hist' = [hist EXCEPT !.removeFailed = TRUE]
               /\ OpReturn(cancelled_wipe_result)
               /\ UNCHANGED filler
          ELSE /\ \E probe \in ProbeOutcomes :
                    LET used == SpaceUsed(filler.available_space, AvailableNow(fs))
                    IN  /\ hist' = [hist EXCEPT !.probe = probe]
                        /\ IF probe = "none"
                              THEN opPc' = "fs_write" /\ UNCHANGED << filler, opResult >>
                           ELSE IF probe = "missed"
                              THEN /\ OpReturn(CommandErr("Could not find disk information"))
                                   /\ UNCHANGED filler
                           ELSE IF used.wrapped /\ filler.overflow_checks
                              THEN Panic /\ UNCHANGED filler
                           ELSE /\ filler' = [filler EXCEPT !.last_space_used = used]
                                /\ opPc' = "fs_write"
                                /\ UNCHANGED opResult
               /\ UNCHANGED fs
    /\ UNCHANGED << passes, algorithm, opCancelled, cancelCtx, writesAfterCancel,
                    batch, disk, ctx, bus, callVars >>

\* Head of the fill loop: the cancel check, then the reading of the free space
\* when 100 ms have gone by since the last one; when the disk is not found the
\* last figure stays.
FsLoopHead ==
    /\ opPc = "fs_loop"
    /\ IF opCancelled
          THEN /\ \/ fs' = Unlink(fs, TempFile) /\ UNCHANGED hist
                  \/ fs' = fs /\ hist' = [hist EXCEPT !.removeFailed = TRUE]
               /\ OpReturn(cancelled_wipe_result)
               /\ UNCHANGED filler
          ELSE /\ \E probe \in ProbeOutcomes :
                    LET used == SpaceUsed(filler.available_space, AvailableNow(fs))
                    IN  /\ hist' = [hist EXCEPT !.probe = probe]
                        /\ IF probe # "found"
                              THEN opPc' = "fs_write" /\ UNCHANGED << filler, opResult >>
                           ELSE IF used.wrapped /\ filler.overflow_checks
                              THEN Panic /\ UNCHANGED filler
                           ELSE /\ filler' = [filler EXCEPT !.last_space_used = used]
                                /\ opPc' = "fs_write"
                                /\ UNCHANGED opResult
               /\ UNCHANGED fs
    /\ UNCHANGED << passes, algorithm, opCancelled, cancelCtx, writesAfterCancel,
                    batch, disk, ctx, bus, callVars >>

\* write_all returned Ok after d ms: the chunk is counted, a snapshot is handed
\* out, and every sync_every chunks the file is synced; a failed sync leaves
\* the loop.
FsWriteOk ==
    /\ opPc = "fs_write"
    /\ AvailableNow(fs) >= chunk_size
    /\ fs' = WriteAt(fs, TempFile, fs[TempFile].len, chunk_size, RandomFill)
    /\ \E d \in Durations :
          hist' = [hist EXCEPT !.wroteFill = TRUE, !.probe = "none",
                               !.fillBurst = @ \/ (~opCancelled /\ hist.wroteFill
                                                     /\ d < progress_update_interval)]
    /\ LET written == filler.total_written + chunk_size
           pr == Update(filler.progress, AsBytes(filler.last_space_used),
                        "Filling drive space (MB written)")
       IN  /\ FillEmit(pr)
           /\ IF written % (sync_every * chunk_size) = 0
                 THEN \/ /\ filler' = [filler EXCEPT !.total_written = written,
                                                     !.progress = pr]
                         /\ opPc' = "fs_loop"
                      \/ /\ filler' = [filler EXCEPT !.total_written = written,
                                                     !.progress = pr,
                                                     !.exit = "sync_failed"]
                         /\ opPc' = "fs_overwrite"
                 ELSE /\ filler' = [filler EXCEPT !.total_written = written,
                                                  !.progress = pr]
                      /\ opPc' = "fs_loop"
    /\ UNCHANGED << passes, algorithm, opCancelled, cancelCtx, writesAfterCancel,
                    opResult, batch, disk, ctx, bus, callLocals >>
\* Variant: after an exhausted write the loop goes round again.
FsWriteExhausted_Continue ==
    /\ opPc = "fs_write"
    /\ \E kind \in {"StorageFull", "OutOfMemory", "WriteZero"} :
       \E partial \in PartialWrites(kind, AvailableNow(fs)) :
       \E probe \in ProbeOutcomes \ {"none"} :
          /\ kind = "StorageFull" => AvailableNow(fs) < chunk_size
          /\ fs' = IF partial > 0
                      THEN WriteAt(fs, TempFile, fs[TempFile].len, partial, RandomFill)
                      ELSE fs
          /\ hist' = [hist EXCEPT !.wroteFill = @ \/ partial > 0,
                                  !.writeFail = "exhausted",
                                  !.probe = probe]
          /\ LET used == SpaceUsed(filler.available_space, AvailableNow(fs) - partial)
                 pr == Update(filler.progress, AsBytes(used), "Drive space filled")
             IN  IF probe = "missed"
                    THEN /\ filler' = [filler EXCEPT !.exit = "exhausted"]
                         /\ opPc' = "fs_loop"
                         /\ UNCHANGED << opResult, emitted, prevPass >>
                 ELSE IF used.wrapped /\ filler.overflow_checks
                    THEN Panic /\ UNCHANGED << filler, emitted, prevPass >>
                    ELSE /\ filler' = [filler EXCEPT !.exit = "exhausted",
                                                     !.progress = pr]
                         /\ FillEmit(pr)
                         /\ opPc' = "fs_loop"
                         /\ UNCHANGED opResult
    /\ UNCHANGED << passes, algorithm, opCancelled, cancelCtx, writesAfterCancel,
                    batch, disk, ctx, bus, callLocals >>

\* write_all failed with StorageFull, OutOfMemory or WriteZero: the free space
\* is read once more, a last snapshot handed out when the disk is found, and
\* the loop is left.
FsWriteExhausted ==
    /\ opPc = "fs_write"
    /\ \E kind \in {"StorageFull", "OutOfMemory", "WriteZero"} :
       \E partial \in PartialWrites(kind, AvailableNow(fs)) :
       \E probe \in ProbeOutcomes \ {"none"} :
          /\ kind = "StorageFull" => AvailableNow(fs) < chunk_size
          /\ fs' = IF partial > 0
                      THEN WriteAt(fs, TempFile, fs[TempFile].len, partial, RandomFill)
                      ELSE fs
          /\ hist' = [hist EXCEPT !.wroteFill = @ \/ partial > 0,
                                  !.writeFail = "exhausted",
                                  !.probe = probe]
          /\ LET used == SpaceUsed(filler.available_space, AvailableNow(fs) - partial)
                 pr == Update(filler.progress, AsBytes(used), "Drive space filled")
             IN  IF probe = "missed"
                    THEN /\ filler' = [filler EXCEPT !.exit = "exhausted"]
                         /\ opPc' = "fs_overwrite"
                         /\ UNCHANGED << opResult, emitted, prevPass >>
                 ELSE IF used.wrapped /\ filler.overflow_checks
                    THEN Panic /\ UNCHANGED << filler, emitted, prevPass >>
                    ELSE /\ filler' = [filler EXCEPT !.exit = "exhausted",
                                                     !.progress = pr]
                         /\ FillEmit(pr)
                         /\ opPc' = "fs_overwrite"
                         /\ UNCHANGED opResult
    /\ UNCHANGED << passes, algorithm, opCancelled, cancelCtx, writesAfterCancel,
                    batch, disk, ctx, bus, callLocals >>

\* Variant: the failure is returned and the temp file left where it is.
FsWriteFailed_KeepTemp ==
    /\ opPc = "fs_write"
    /\ hist' = [hist EXCEPT !.writeFail = "other"]
    /\ OpReturn(free_space_error_result("Failed to write to temporary file: os"))
    /\ UNCHANGED << fs, passes, algorithm, opCancelled, cancelCtx, writesAfterCancel,
                    batch, filler, disk, ctx, bus, callVars >>

\* write_all failed in any other way: the temp file is removed, a failure of
\* the removal ignored, and the failure is returned.
FsWriteFailed ==
    /\ opPc = "fs_write"
    /\ \E removed \in BOOLEAN :
          /\ fs' = IF removed THEN Unlink(fs, TempFile) ELSE fs
          /\ hist' = [hist EXCEPT !.writeFail = "other", !.removeFailed = ~removed]
    /\ OpReturn(free_space_error_result("Failed to write to temporary file: os"))
    /\ UNCHANGED << passes, algorithm, opCancelled, cancelCtx, writesAfterCancel,
                    batch, filler, disk, ctx, bus, callVars >>

\* After the loop: progress.total_bytes = total_written, then secure_wipe_file
\* is called on the temp file and builds a WipeProgress of its own.  The
\* closure's progress and its last reading of the space used are not read
\* again.
FsOverwriteCall ==
    /\ opPc = "fs_overwrite"
    /\ BeginCall(TempFile)
    /\ filler' = [filler EXCEPT !.last_space_used = U64(0), !.progress = NoProgress]
    /\ hist' = [hist EXCEPT !.overwriteEntered = TRUE, !.probe = "none"]
    /\ opPc' = "fs_wiping"
    /\ UNCHANGED << fs, passes, algorithm, opCancelled, cancelCtx, writesAfterCancel,
                    opResult, batch, disk, ctx, bus >>

\* Variant: an Ok of secure_wipe_file reported as success whatever the flag.
FsOverwriteReturn_IgnoreCancel ==
    /\ opPc = "fs_wiping"
    /\ pc = "done"
    /\ IF result = Ok
          THEN /\ OpReturn(WipeResult(TRUE, "Successfully wiped free space",
                                      "success", 0, <<>>))
               /\ hist' = [hist EXCEPT !.overwrite = "ok"]
               /\ UNCHANGED fs
          ELSE /\ OpReturn(free_space_error_result(
                      "Failed to wipe free space: " \o ErrText(result)))
               /\ \/ fs' = Unlink(fs, TempFile)
                     /\ hist' = [hist EXCEPT !.overwrite = "err"]
                  \/ fs' = fs
                     /\ hist' = [hist EXCEPT !.overwrite = "err", !.removeFailed = TRUE]
    /\ EndCall
    /\ UNCHANGED << passes, algorithm, opCancelled, cancelCtx, writesAfterCancel,
                    batch, filler, disk, ctx, bus >>

\* secure_wipe_file returned: Ok gives the cancelled result when the flag is
\* set and success otherwise; Err removes the temp file, a failure of the
\* removal ignored, and gives the failure.
FsOverwriteReturn ==
    /\ opPc = "fs_wiping"
    /\ pc = "done"
    /\ IF result = Ok
          THEN /\ IF opCancelled
                     THEN OpReturn(cancelled_wipe_result)
                     ELSE OpReturn(WipeResult(TRUE, "Successfully wiped free space",
                                              "success", 0, <<>>))
               /\ hist' = [hist EXCEPT !.overwrite = "ok"]
               /\ UNCHANGED fs
          ELSE /\ OpReturn(free_space_error_result(
                      "Failed to wipe free space: " \o ErrText(result)))
               /\ \/ fs' = Unlink(fs, TempFile)
                     /\ hist' = [hist EXCEPT !.overwrite = "err"]
                  \/ fs' = fs
                     /\ hist' = [hist EXCEPT !.overwrite = "err", !.removeFailed = TRUE]
    /\ EndCall
    /\ UNCHANGED << passes, algorithm, opCancelled, cancelCtx, writesAfterCancel,
                    batch, filler, disk, ctx, bus >>

\* The cancel_operation listener registered by execute_free_space_wipe.
FsCancel ==
    /\ opPc # "returned"
    /\ ~opCancelled
    /\ opCancelled' = TRUE
    /\ hist' = [hist EXCEPT !.cancelInLoop = opPc \in {"fs_loop", "fs_write"}]
    /\ UNCHANGED << fs, passes, algorithm, cancelCtx, writesAfterCancel,
                    opPc, opResult, batch, filler, disk, ctx, bus, callVars >>

NextFree ==
    \/ WipeStep
    \/ FsValidate
    \/ FsDiskInfo
    \/ FsRemoveStale
    \/ FsCreate
    \/ FsLoopHead
    \/ FsWriteOk
    \/ FsWriteExhausted
    \/ FsWriteFailed
    \/ FsOverwriteCall
    \/ FsOverwriteReturn
    \/ FsCancel

SpecFree == InitFree /\ [][NextFree]_vars

\* The worker thread is scheduled until it returns; the cancel event may or
\* may not come.
SpecFreeLive == SpecFree /\ WF_vars(NextFree /\ opCancelled' = opCancelled)

(* ------------------------------ properties ---------------------------- *)
Returned == pc = "done"
NoIoIssued == \A k \in IoKinds : ioCount[k] = 0
InLog(e) == \E i \in 1 .. Len(ioLog) : ioLog[i] = e

\* C1: whenever secure_wipe_file returns Ok the target path no longer exists,
\* and both the truncation to zero length and the remove_file have succeeded.
C1_OkMeansRemoved ==
    (Returned /\ result = Ok) =>
        /\ fs[path] = NoNode
        /\ passes >= 1
        /\ InLog("set_len")
        /\ InLog("remove")

\* A Random wipe of several passes over a file of more than one chunk returned Ok.
C1_Witness ==
    /\ Returned /\ result = Ok
    /\ algorithm = "Random" /\ passes >= 2
    /\ fs0[path].len > BUFFER_SIZE

\* C2: if the operation's cancel flag is set while secure_wipe_file is
\* overwriting the file, the call returns without truncating and without
\* deleting it: the file still exists with its original length.
C2_CancelLeavesFile ==
    (Returned /\ cancelCtx = "overwriting") =>
        /\ fs[path].kind = "file"
        /\ fs[path].len = fs0[path].len

\* C3: after the operation's cancel flag is set, at most the chunk write
\* already in flight completes; no further chunk write is issued.
C3_NoWriteAfterCancel == writesAfterCancel <= 1

\* C4: for passes >= 1, the current_pass of each emitted snapshot is at least
\* that of the previous snapshot and never exceeds the snapshot's total_passes.
C4_PassIndexBounded ==
    (emitted # <<>> /\ passes >= 1) =>
        /\ prevPass <= emitted[1].current_pass
        /\ emitted[1].current_pass <= emitted[1].total_passes

\* The sweep counts the algorithms are documented to perform.
ExpectedSweeps(alg, n) ==
    CASE alg = "NistClear" -> 1
      [] alg = "NistPurge" -> 3
      [] alg = "Gutmann"   -> 35
      [] alg = "Random"    -> n

\* C5: a successful call performs exactly 1 full sweep for NistClear, 3 for
\* NistPurge, 35 for Gutmann and N for Random with passes = N >= 1, each sweep
\* writing every chunk of the file; Random with passes = 0 on an existing
\* regular file fails InvalidPasses before any byte is written.
C5_ExactPassCounts ==
    Returned =>
        /\ result = Ok =>
              /\ sweeps = ExpectedSweeps(algorithm, passes)
              /\ ioCount["write"] = sweeps * NumChunks(file_size)
        /\ (algorithm = "Random" /\ passes = 0 /\ fs0[path].kind = "file") =>
              /\ result = InvalidPasses
              /\ ioCount["write"] = 0
              /\ fs = fs0

\* A Gutmann wipe of a two-chunk file returned Ok.
C5_Witness ==
    /\ Returned /\ result = Ok
    /\ algorithm = "Gutmann"
    /\ ioCount["write"] >= 70

\* C6: once the last pass has completed and the call has returned, Ok or Err,
\* the target file does not exist or has length zero.
C6_NoDataLeftAfterPasses ==
    (Returned /\ fs0[path].kind = "file" /\ passes >= 1
        /\ sweeps = PassCount(algorithm, passes)) =>
        (fs[path].kind = "none" \/ fs[path].len = 0)

\* C7: on the success path the final file-system events are, in order, the
\* sync of the last pass, the truncation, the close of the handle and the
\* unlink; the unlink is never issued before the truncation has succeeded.
C7_FinalOrder ==
    /\ (Returned /\ result = Ok) => ioLog = <<"sync", "set_len", "close", "remove">>
    /\ (pc = "remove" \/ ioCount["remove"] > 0) =>
          (InLog("set_len") /\ (fs[path].kind = "file" => fs[path].len = 0))

\* A NistPurge wipe of a non-empty file returned Ok.
C7_Witness ==
    /\ Returned /\ result = Ok
    /\ algorithm = "NistPurge"
    /\ fs0[path].len > 0

\* C8: on a path that does not exist and is not a symbolic link the call
\* returns PathNotFound for every algorithm and passes value, and no file is
\* created, opened, written, truncated or removed.
C8_MissingPath ==
    fs0[path].kind = "none" =>
        /\ fs = fs0
        /\ NoIoIssued
        /\ ~file.open
        /\ Returned => result = PathNotFound

\* The call on a missing path with passes = 0 has returned.
C8_Witness ==
    /\ Returned /\ result = PathNotFound
    /\ fs0[path].kind = "none"
    /\ passes = 0

\* C9: on a symbolic link the call returns the symlink refusal for every
\* algorithm and passes value, whether or not the target exists, before any
\* file is opened; neither the link nor its target is changed.
C9_SymlinkRefused ==
    fs0[path].kind = "symlink" =>
        /\ fs = fs0
        /\ NoIoIssued
        /\ ~file.open
        /\ Returned => result = SymlinkRefusal

\* The call on a link whose target is an existing file has returned.
C9_Witness ==
    /\ Returned /\ result = SymlinkRefusal
    /\ fs0[path].kind = "symlink"
    /\ fs0[LinkTarget].kind = "file"
    /\ passes >= 1

\* C10: for NistClear, NistPurge and Gutmann the passes argument is ignored,
\* passes = 0 included: InvalidPasses is returned only for Random with
\* passes = 0, and a successful call performs the algorithm's own sweep count.
C10_PassesIgnoredForFixed ==
    (Returned /\ algorithm # "Random") =>
        /\ result # InvalidPasses
        /\ result = Ok => sweeps = ExpectedSweeps(algorithm, passes)

\* The command has handed its result back to the caller.
OpReturned == opPc = "returned"

\* C11: when the cancel flag is set before wipe_files builds its outcome, the
\* outcome is the cancelled result; no entry of the failed-items list
\* describes a cancellation, and the "Wiped N files with M errors" form is
\* never used for a cancelled batch.
C11_CancelledOutcome ==
    /\ (OpReturned /\ opCancelled) => opResult = cancelled_wipe_result
    /\ (OpReturned /\ opResult.form = "partial") => ~opCancelled
    /\ \A i \in 1 .. Len(batch.failed_files) : \A x \in Paths :
           batch.failed_files[i] # "Failed to wipe " \o x \o ": " \o ErrText(CancelledErr)
    /\ (opPc \in {"wf_file", "wf_entry"} /\ pc = "done") => result # CancelledErr

\* A batch with failures already recorded saw the flag at its final check.
C11_Witness ==
    /\ OpReturned /\ opCancelled
    /\ batch.queue = <<>>
    /\ batch.failed_files # <<>>
    /\ opResult = cancelled_wipe_result

\* C12: with the cancel flag never set, every path of the batch is attempted
\* and every file under it is handed to secure_wipe_file, whatever failed
\* before; success is true exactly when no item failed, and otherwise the
\* outcome carries the number of files wiped and one description per failed
\* item, joined by newlines.
C12_FailuresAggregated ==
    (OpReturned /\ ~opCancelled) =>
        /\ hist.attempted = {batch.paths[i] : i \in 1 .. Len(batch.paths)}
        /\ hist.called = hist.todo
        /\ opResult.kind = "result"
        /\ opResult.success <=> hist.failedItems = 0
        /\ opResult.success => opResult.total_files = hist.okCalls
        /\ ~opResult.success =>
              /\ opResult.form = "partial"
              /\ opResult.total_files = hist.okCalls
              /\ Len(opResult.errors) = hist.failedItems
              /\ opResult.message =
                     "Wiped " \o ToString(hist.okCalls) \o " files with "
                        \o ToString(hist.failedItems) \o " errors:\n"
                        \o JoinLines(opResult.errors)

\* The first path of a two-path batch was missing and a later file was wiped.
C12_Witness ==
    /\ OpReturned /\ ~opCancelled
    /\ Len(batch.paths) = 2
    /\ batch.failed_files # <<>>
    /\ batch.failed_files[1] = "Path not found: " \o batch.paths[1]
    /\ hist.okCalls >= 1
    /\ ~opResult.success

\* C13: once the cancel flag of a batch is set, no further file is handed to
\* secure_wipe_file, the batch returns the cancelled outcome, and the
\* directory whose entries were being processed is not removed.
C13_CancelStopsBatch ==
    /\ hist.callsAfterCancel = 0
    /\ (OpReturned /\ opCancelled) => opResult = cancelled_wipe_result
    /\ ~hist.rmdirAfterCancel

\* The path handed to execute_free_space_wipe passed validation and its disk
\* was found.
FillStarted == validate_drive_path_internal(filler.root) = "ok" /\ disk.found

\* C14: on an existing path whose string does not hold exactly one separator
\* the operation returns the "not a drive root" failure and changes nothing:
\* no temp file is created, no file is removed, no byte is written.
C14_NotDriveRoot ==
    (filler.root.exists /\ filler.root.separators # 1) =>
        /\ fs = fs0
        /\ ~hist.created /\ ~hist.staleRemoved /\ ~hist.wroteFill
        /\ ~hist.overwriteEntered
        /\ OpReturned =>
              opResult = free_space_error_result("Selected path is not a drive root")

\* A path with two separators, on a volume that holds a stale temp file.
C14_Witness ==
    /\ OpReturned
    /\ filler.root.exists /\ filler.root.separators = 2
    /\ hist.staleThere /\ exists(fs, TempFile)
    /\ opResult = free_space_error_result("Selected path is not a drive root")

\* C15: when the cancel flag is set during the fill loop, secure_wipe_file is
\* never called on the temp file, and, when no write of the loop fails, the
\* operation returns the cancelled outcome with the temp file removed (as
\* far as remove_file succeeds).
C15_CancelInFill ==
    hist.cancelInLoop =>
        /\ ~hist.overwriteEntered
        /\ (OpReturned /\ hist.writeFail = "none") =>
              /\ opResult = cancelled_wipe_result
              /\ ~hist.removeFailed => ~exists(fs, TempFile)

\* C16 as stated: the success flag follows the result of secure_wipe_file
\* alone, true on Ok and false on Err.
C16_OverwriteResultAlone ==
    /\ (OpReturned /\ hist.overwrite = "ok") =>
          (opResult.kind = "result" /\ opResult.success)
    /\ (OpReturned /\ hist.overwrite = "err") =>
          (opResult.kind = "result" /\ ~opResult.success)

\* C16: when secure_wipe_file returns Ok the outcome is success unless the
\* cancel flag is set by then, in which case it is the cancelled outcome;
\* when it returns Err the outcome is the failure.
C16_OverwriteOutcome ==
    /\ (OpReturned /\ hist.overwrite = "ok") =>
          IF opCancelled
             THEN opResult = cancelled_wipe_result
             ELSE opResult.kind = "result" /\ opResult.success
                     /\ opResult.message = "Successfully wiped free space"
    /\ (OpReturned /\ hist.overwrite = "err") =>
          (opResult.kind = "result" /\ ~opResult.success /\ opResult.form = "error")

\* The overwrite of a filled temp file returned Ok with the flag set.
C16_Witness ==
    /\ OpReturned
    /\ hist.overwrite = "ok"
    /\ hist.wroteFill
    /\ opCancelled
    /\ opResult = cancelled_wipe_result

\* C17: with passes = 0 the operation creates no temp file and writes no
\* fill data.
C17_ZeroPassesFillNothing ==
    passes = 0 => (~hist.created /\ ~hist.wroteFill)

\* C18: a write failure of kind StorageFull, OutOfMemory or WriteZero ends the
\* fill loop without error: the temp file is kept, secure_wipe_file is called
\* on it, and a failure outcome comes only from that call or from cancellation.
C18_ExhaustionEndsFill ==
    hist.writeFail = "exhausted" =>
        /\ opPc = "fs_overwrite" => (exists(fs, TempFile) /\ opResult = NoResult)
        /\ OpReturned =>
              /\ hist.overwriteEntered
              /\ opResult.kind = "result"
              /\ ~opResult.success => (hist.overwrite = "err" \/ opCancelled)

C20_StaleRemovedFirst ==
    hist.staleThere =>
        /\ (hist.created \/ hist.wroteFill \/ hist.overwriteEntered) => hist.staleRemoved
        /\ (OpReturned /\ FillStarted /\ ~hist.staleRemoved) =>
              /\ opResult = free_space_error_result(
                     "Failed to remove existing temporary file: os")
              /\ fs = fs0

\* Fill data was written on a volume that held a stale temp file.
C20_Witness ==
    /\ hist.staleThere
    /\ hist.staleRemoved
    /\ hist.wroteFill

\* The contents of the file from offset 0 to file_size are the fill f.
FilledWith(f) ==
    /\ fs[file.node].len = file_size
    /\ \A i \in 1 .. NumChunks(file_size) : fs[file.node].data[i] = f

\* C22: the Gutmann table has 35 entries with 35 distinct labels, random in
\* passes 1-4 and 32-35 and fixed in passes 5-31; a Gutmann wipe runs them in
\* index order, each pass starting with the label of its table entry, and a
\* wipe that returns Ok has run all 35.
C22_GutmannTable ==
    algorithm = "Gutmann" =>
          /\ (pc = "pass_start" /\ pass = 1) =>
                /\ Len(GutmannPatterns) = 35
                /\ \A k \in 1 .. Len(GutmannPatterns) :
                      GutmannPatterns[k].is_random <=> (k <= 4 \/ k >= 32)
                /\ Cardinality({k \in 1 .. Len(GutmannPatterns) :
                                   ~GutmannPatterns[k].is_random}) = 27
                /\ \A j, k \in 1 .. Len(GutmannPatterns) :
                      GutmannPatterns[j].desc = GutmannPatterns[k].desc => j = k
          /\ pc \in {"chunk", "sync"} =>
                /\ pass \in 1 .. 35
                /\ sweeps = pass - 1
                /\ progress.current_pass = pass
                /\ progress.current_pattern \in
                      {GutmannPatterns[pass].desc, GutmannPatterns[pass].desc \o " - MB"}
          /\ pc = "sync" =>
                \A i \in 1 .. NumChunks(file_size) :
                   (fs[file.node].data[i].kind = "random") <=> (pass <= 4 \/ pass >= 32)
          /\ emitted # <<>> => emitted[1].current_pass \in {prevPass, prevPass + 1}
          /\ (Returned /\ result = Ok) => sweeps = 35

\* A Gutmann wipe of a file of several chunks has returned Ok.
C22_Witness ==
    /\ Returned /\ result = Ok
    /\ algorithm = "Gutmann"
    /\ sweeps = 35
    /\ file_size = MaxChunks * BUFFER_SIZE

\* C23: after the NistClear sweep and after NistPurge pass 1 every byte of
\* the file is 0x00, after NistPurge pass 2 every byte is 0xFF, after pass 3
\* the file holds random data; the length of the file is the one it had
\* before the sweep, and every NistClear snapshot has current_pass = 1.
C23_NistFills ==
    /\ (algorithm = "NistClear" /\ emitted # <<>>) => emitted[1].current_pass = 1
    /\ (algorithm = "NistClear" /\ pc = "sync") =>
          (pass = 1 /\ FilledWith(FixedFill(<<0>>)))
    /\ (algorithm = "NistPurge" /\ pc = "sync") =>
          /\ pass \in 1 .. 3
          /\ pass = 1 => FilledWith(FixedFill(<<0>>))
          /\ pass = 2 => FilledWith(FixedFill(<<255>>))
          /\ pass = 3 => FilledWith(RandomFill)
    /\ (algorithm \in {"NistClear", "NistPurge"} /\ pc \in {"chunk", "sync"}) =>
          fs[file.node].len = fs0[path].len

\* The second NistPurge pass over a file of several chunks has been written.
C23_Witness ==
    /\ algorithm = "NistPurge"
    /\ pc = "sync"
    /\ pass = 2
    /\ file_size = MaxChunks * BUFFER_SIZE
    /\ FilledWith(FixedFill(<<255>>))

\* The last file-system call that succeeded.
LastIo == IF ioLog = <<>> THEN "" ELSE ioLog[Len(ioLog)]

\* C25: for NistPurge, Gutmann and Random every pass starts with a seek to
\* offset 0 and ends with sync_all; pass k+1 is written only after the sync of
\* pass k succeeded; a failed seek, write or sync ends the call with an Io
\* error, the file neither truncated nor removed.
C25_SeekSyncPerPass ==
    algorithm # "NistClear" =>
        /\ (pc = "chunk" /\ chunk_start = 0) => (LastIo = "seek" /\ file.pos = 0)
        /\ (pc = "sync" /\ file_size = 0) => (LastIo = "seek" /\ file.pos = 0)
        /\ pc \in {"chunk", "sync"} =>
              /\ ioCount["seek"] = pass
              /\ ioCount["sync"] = pass - 1
              /\ sweeps = pass - 1
        /\ (pc = "pass_start" /\ pass > 1) => (LastIo = "sync" /\ sweeps = pass - 1)
        /\ (Returned /\ ioCount["seek"] >= 1 /\ ioCount["set_len"] = 0) =>
              /\ result.tag = "Io"
              /\ ioCount["remove"] = 0
              /\ fs[path].kind = "file"
              /\ fs[path].len = fs0[path].len

\* The sync that ends the second NistPurge pass failed.
C25_Witness ==
    /\ algorithm = "NistPurge"
    /\ Returned /\ result = OsError("Other")
    /\ sweeps = 1
    /\ ioCount["sync"] = 2
    /\ fs[path].kind = "file" /\ fs[path].len = BUFFER_SIZE + 1

\* C26: each pass over a file of S bytes issues ceil(S / BUFFER_SIZE) writes
\* at the offsets 0, BUFFER_SIZE, .. in increasing order, each of BUFFER_SIZE
\* bytes but the last, which is clipped to what remains; the writes end at
\* offset S and the length of the file stays S.
C26_ChunkCover ==
    /\ (file.open /\ pc \in {"pass_start", "chunk", "sync"}) => fs[file.node].len = file_size
    /\ pc = "chunk" =>
          /\ file.pos = chunk_start
          /\ chunk_start < file_size
          /\ chunk_start % BUFFER_SIZE = 0
          /\ ioCount["write"] =
                (pass - 1) * ((file_size + BUFFER_SIZE - 1) \div BUFFER_SIZE)
                    + chunk_start \div BUFFER_SIZE
    /\ pc = "sync" =>
          /\ file.pos = file_size
          /\ ioCount["write"] = pass * ((file_size + BUFFER_SIZE - 1) \div BUFFER_SIZE)
    /\ (fs[path].kind = "file" /\ ioCount["set_len"] = 0) => fs[path].len = fs0[path].len

\* The second pass over a file one byte longer than a chunk has been written.
C26_Witness ==
    /\ pc = "sync"
    /\ pass = 2
    /\ file_size = BUFFER_SIZE + 1
    /\ file.pos = BUFFER_SIZE + 1
    /\ ioCount["write"] = 4

\* C27: every pass hands out a snapshot at its start and one more when it is
\* complete (bytes_processed = file_size), and after the last pass the last
\* snapshot is the one labelled as finalizing.
C27_PassCompletionSnapshot ==
    /\ pc \in {"chunk", "sync"} => emitted # <<>>
    /\ (file_size > 0 /\ ((pc = "pass_start" /\ pass > 1) \/ pc = "finalize")) =>
          (emitted # <<>> /\ emitted[1].bytes_processed = file_size)
    /\ pc \in {"set_len", "close", "remove"} =>
          (emitted # <<>> /\ emitted[1].current_pattern = FinalDesc(algorithm))

\* C30: every snapshot handed out has percentage = bytes_processed / D * 100
\* with D the estimate when there is one and total_bytes otherwise, and D is
\* not zero.
C30_PercentageDefined ==
    emitted # <<>> =>
        LET snap == emitted[1]
            D == IF snap.estimated_total_bytes # None
                    THEN snap.estimated_total_bytes ELSE snap.total_bytes
        IN  /\ snap.percentage = [num |-> snap.bytes_processed * 100, den |-> D]
            /\ D # 0

\* A snapshot emitted from inside a chunk loop: its label is a pass label with
\* the megabyte counter appended.
InLoopSnapshot(snap) ==
    \E k \in 1 .. PassCount(algorithm, passes) :
        snap.current_pattern = ChunkDesc(algorithm, k, passes)

\* C28: a snapshot is emitted from inside a chunk loop only when at least
\* progress_update_interval (16 ms) have passed since the previous in-loop
\* snapshot, or since the wipe started for the first one; the timer restarts at
\* each such snapshot.
C28_InLoopThrottle ==
    /\ loopGap # None => loopGap >= progress_update_interval
    /\ (emitted # <<>> /\ InLoopSnapshot(emitted[1])) =>
          (loopGap # None /\ loopGap >= progress_update_interval)
    /\ (pc = "chunk" /\ chunk_start > 0) => elapsed < progress_update_interval

\* C28 witness: the second chunk of a pass after the first has just produced
\* an in-loop snapshot.
C28_Witness ==
    /\ pc = "sync"
    /\ pass = 2
    /\ file_size = MaxChunks * BUFFER_SIZE
    /\ emitted # <<>>
    /\ emitted[1].bytes_processed = file_size
    /\ InLoopSnapshot(emitted[1])
    /\ elapsed = 0
    /\ loopGap = progress_update_interval

\* secure_wipe_file is running on the temp file and has handed out a snapshot.
OverwriteSnapshot == opPc = "fs_wiping" /\ emitted # <<>>

\* C21 as stated: in the overwrite phase every snapshot carries total_bytes
\* equal to total_written, the bytes the fill loop counted, however the fill
\* loop ended.
C21_TotalIsTotalWritten ==
    OverwriteSnapshot => emitted[1].total_bytes = filler.total_written

\* C21 amended: in the overwrite phase every snapshot carries total_bytes equal
\* to the length the temp file had when secure_wipe_file opened it, with no
\* capacity estimate; that length is total_written, plus the bytes of a last
\* write that failed after writing part of a chunk.
C21_TotalIsFileLength ==
    OverwriteSnapshot =>
        /\ emitted[1].total_bytes = fs0[TempFile].len
        /\ emitted[1].estimated_total_bytes = None
        /\ emitted[1].total_bytes >= filler.total_written
        /\ emitted[1].total_bytes - filler.total_written < chunk_size
        /\ hist.writeFail # "exhausted" => emitted[1].total_bytes = filler.total_written

\* C21 witness: an overwrite snapshot after a fill that counted whole chunks
\* and ended with a partly written one.
C21_Witness ==
    /\ OverwriteSnapshot
    /\ hist.writeFail = "exhausted"
    /\ filler.total_written > 0
    /\ emitted[1].total_bytes > filler.total_written

\* C29: the fill loop of execute_free_space_wipe delivers at most one snapshot
\* per throttle interval: no snapshot follows the previous fill-loop snapshot
\* by less than progress_update_interval.
C29_FillThrottled == ~hist.fillBurst

(* ----------------------- sanitize_context_paths ------------------------ *)
\* Strings are sequences of one-character strings here, so that trim and
\* starts_with are computed.

\* Longest argument list looked at.
MaxRaw == 3

\* The raw paths the shell hands over: empty, blank, a file name bare, padded
\* with blanks and behind "./", a second name, and a UNC path bare and padded.
RawPaths ==
    { <<>>, <<" ">>, <<"a">>, <<" ", "a", " ">>, <<".", "/", "a">>, <<"b">>,
      <<"\\", "\\", "s">>, <<" ", "\\", "\\", "s">> }

\* What a name of the directory can be: a regular file, nothing, a symbolic
\* link with or without a target, an entry whose metadata cannot be read, a
\* file whose canonical path is not valid UTF-8.
NodeKinds == {"file", "missing", "symlink", "dangling", "uninspectable", "nonutf8"}

NonUtf8 == <<"?">>

\* str::trim
RECURSIVE TrimStart(_)
TrimStart(str) == IF str # <<>> /\ Head(str) = " " THEN TrimStart(Tail(str)) ELSE str

RECURSIVE TrimEnd(_)
TrimEnd(str) ==
    IF str # <<>> /\ str[Len(str)] = " " THEN TrimEnd(SubSeq(str, 1, Len(str) - 1)) ELSE str

Trim(str) == TrimEnd(TrimStart(str))

\* str::starts_with
starts_with(str, prefix) ==
    Len(str) >= Len(prefix) /\ SubSeq(str, 1, Len(prefix)) = prefix

\* The name a path leads to: leading "./" components lead nowhere else.
RECURSIVE Normalize(_)
Normalize(candidate) ==
    IF starts_with(candidate, <<".", "/">>)
       THEN Normalize(SubSeq(candidate, 3, Len(candidate)))
       ELSE candidate

\* What is at the path in the directory the call sees.
NodeAt(c, candidate) ==
    IF Normalize(candidate) \in DOMAIN c.nodes THEN c.nodes[Normalize(candidate)] ELSE "missing"

\* Path::exists follows symbolic links.
PathExists(c, candidate) == NodeAt(c, candidate) \notin {"missing", "dangling"}

\* fs::symlink_metadata does not follow them.
symlink_metadata(c, candidate) ==
    CASE NodeAt(c, candidate) = "uninspectable" -> "Err"
      [] NodeAt(c, candidate) \in {"symlink", "dangling"} -> "symlink"
      [] OTHER -> "Ok"

\* candidate.canonicalize().unwrap_or_else(|_| candidate.clone()), then to_str()
canonicalize(c, candidate) ==
    IF ~c.canonical_ok THEN candidate
    ELSE IF NodeAt(c, candidate) = "nonutf8" THEN NonUtf8
    ELSE <<"/">> \o Normalize(candidate)

\* format!("<reason>: {}", trimmed)
InvalidEntry(reason, trimmed) == [reason |-> reason, path |-> trimmed]

\* Variant: the canonical string is listed whether it was seen before or not.
Admit_NoDedup(c, canonical_str) ==
    [c EXCEPT !.seen = @ \cup {canonical_str}, !.valid = Append(@, canonical_str)]

\* if seen.insert(canonical_str.clone()) { valid.push(canonical_str) }
Admit(c, canonical_str) ==
    IF canonical_str \in c.seen THEN c
    ELSE [c EXCEPT !.seen = @ \cup {canonical_str}, !.valid = Append(@, canonical_str)]

\* The call starts: an argument list of up to MaxRaw raw paths, and a
\* directory in which "a" is anything and "b" a file or missing.
InitSanitize ==
    /\ \E raw_paths \in UNION {[1 .. n -> RawPaths] : n \in 0 .. MaxRaw},
          ka \in NodeKinds, kb \in {"file", "missing"}, ok \in BOOLEAN :
          ctx = [at |-> "loop", raw_paths |-> raw_paths,
                 nodes |-> [x \in {<<"a">>, <<"b">>} |-> IF x = <<"a">> THEN ka ELSE kb],
                 canonical_ok |-> ok, i |-> 1, seen |-> {}, valid |-> <<>>,
                 invalid |-> <<>>,
                 payload |-> [paths |-> <<>>, invalid |-> <<>>, source |-> ""]]
    /\ fs = [x \in Paths |-> NoNode]
    /\ fs0 = fs
    /\ passes = 0
    /\ algorithm = "NistClear"
    /\ path = ""
    /\ pc = "idle"
    /\ result = Running
    /\ cancelled = FALSE
    /\ opCancelled = FALSE
    /\ file = NoHandle
    /\ file_size = 0
    /\ progress = WipeProgressNew(0, 0, algorithm)
    /\ pass = 0
    /\ chunk_start = 0
    /\ elapsed = 0
    /\ emitted = <<>>
    /\ prevPass = 0
    /\ loopGap = None
    /\ ioLog = <<>>
    /\ ioCount = [k \in IoKinds |-> 0]
    /\ sweeps = 0
    /\ cancelCtx = NoCancel
    /\ writesAfterCancel = 0
    /\ opPc = "idle"
    /\ opResult = NoResult
    /\ batch = NoBatch
    /\ filler = NoFiller
    /\ disk = NoDisk
    /\ hist = NoHist
    /\ bus = NoBus

\* Everything but ctx.
wipeVars ==
    << fs, passes, algorithm, opCancelled, cancelCtx, writesAfterCancel, opPc, opResult,
       batch, filler, disk, bus, hist, callVars >>

\* One iteration of `for raw in raw_paths`.
SanitizeStep ==
    /\ ctx.at = "loop"
    /\ ctx.i <= Len(ctx.raw_paths)
    /\ LET trimmed == Trim(ctx.raw_paths[ctx.i])
           candidate == trimmed
           canonical_str == canonicalize(ctx, candidate)
           next == [ctx EXCEPT !.i = @ + 1]
           Reject(reason) == [next EXCEPT !.invalid = Append(@, InvalidEntry(reason, trimmed))]
       IN  ctx' =
              IF trimmed = <<>> THEN next
              ELSE IF starts_with(trimmed, <<"\\", "\\">>)
                 THEN Reject("Network paths are not supported")
              ELSE IF ~PathExists(ctx, candidate) THEN Reject("Path not found")
              ELSE IF symlink_metadata(ctx, candidate) = "symlink"
                 THEN Reject("Symbolic links are not supported")
              ELSE IF symlink_metadata(ctx, candidate) = "Err" THEN Reject("Failed to inspect")
              ELSE IF canonical_str = NonUtf8 THEN Reject("Unsupported path encoding")
              ELSE Admit(next, canonical_str)
    /\ UNCHANGED wipeVars

\* ContextWipePayload { paths: valid, invalid, source: "context-menu" }
SanitizeReturn ==
    /\ ctx.at = "loop"
    /\ ctx.i > Len(ctx.raw_paths)
    /\ ctx' = [ctx EXCEPT !.at = "returned",
                          !.payload = [paths |-> ctx.valid, invalid |-> ctx.invalid,
                                       source |-> "context-menu"]]
    /\ UNCHANGED wipeVars

NextSanitize ==
    \/ SanitizeStep
    \/ SanitizeReturn

SpecSanitize == InitSanitize /\ [][NextSanitize]_vars

\* The inputs the loop has gone through, and what each one is.
Sanitized == IF ctx.at = "idle" THEN {} ELSE 1 .. (ctx.i - 1)
TrimmedAt(k) == Trim(ctx.raw_paths[k])
NonBlank(k) == TrimmedAt(k) # <<>>
IsNetworkPath(k) ==
    Len(TrimmedAt(k)) >= 2 /\ TrimmedAt(k)[1] = "\\" /\ TrimmedAt(k)[2] = "\\"
Acceptable(k) ==
    /\ NonBlank(k)
    /\ ~IsNetworkPath(k)
    /\ \/ NodeAt(ctx, TrimmedAt(k)) = "file"
       \/ NodeAt(ctx, TrimmedAt(k)) = "nonutf8" /\ ~ctx.canonical_ok
Rejected(k) == NonBlank(k) /\ ~Acceptable(k)
ReasonAt(k) ==
    IF IsNetworkPath(k) THEN "Network paths are not supported"
    ELSE CASE NodeAt(ctx, TrimmedAt(k)) \in {"missing", "dangling"} -> "Path not found"
           [] NodeAt(ctx, TrimmedAt(k)) = "symlink" -> "Symbolic links are not supported"
           [] NodeAt(ctx, TrimmedAt(k)) = "uninspectable" -> "Failed to inspect"
           [] OTHER -> "Unsupported path encoding"
ListedAs(k) == canonicalize(ctx, TrimmedAt(k))
Duplicate(k) ==
    Acceptable(k) /\ \E j \in Sanitized : j < k /\ Acceptable(j) /\ ListedAs(j) = ListedAs(k)
FirstOf(canonical_str) ==
    CHOOSE k \in Sanitized :
        /\ Acceptable(k) /\ ListedAs(k) = canonical_str
        /\ \A j \in Sanitized : (Acceptable(j) /\ ListedAs(j) = canonical_str) => k <= j

\* C24: every non-blank input of sanitize_context_paths ends in exactly one of
\* three ways: listed in paths (it exists, is no symbolic link and no network
\* path), listed in invalid (network path, missing, symbolic link,
\* uninspectable or not UTF-8), or dropped as the duplicate of an earlier
\* listed path; paths has no duplicates and keeps the order of first
\* occurrence.
C24_SanitizeClassifies ==
    ctx.at # "idle" =>
        /\ \A k \in Sanitized : Rejected(k) =>
              \E m \in 1 .. Len(ctx.invalid) :
                  ctx.invalid[m] = InvalidEntry(ReasonAt(k), TrimmedAt(k))
        /\ Len(ctx.invalid) = Cardinality({k \in Sanitized : Rejected(k)})
        /\ {ctx.valid[m] : m \in 1 .. Len(ctx.valid)} =
              {ListedAs(k) : k \in {j \in Sanitized : Acceptable(j)}}
        /\ \A m, n \in 1 .. Len(ctx.valid) : m # n => ctx.valid[m] # ctx.valid[n]
        /\ \A m, n \in 1 .. Len(ctx.valid) :
              m < n => FirstOf(ctx.valid[m]) < FirstOf(ctx.valid[n])
        /\ Len(ctx.valid) + Len(ctx.invalid) + Cardinality({k \in Sanitized : Duplicate(k)})
              = Cardinality({k \in Sanitized : NonBlank(k)})
        /\ ctx.at = "returned" =>
              /\ Sanitized = 1 .. Len(ctx.raw_paths)
              /\ ctx.payload = [paths |-> ctx.valid, invalid |-> ctx.invalid,
                                source |-> "context-menu"]

\* C24 witness: the call has returned after listing two different files in the
\* order given and dropping a second spelling of the first.
C24_Witness ==
    /\ ctx.at = "returned"
    /\ ctx.raw_paths = << <<"b">>, <<" ", "a", " ">>, <<".", "/", "a">> >>
    /\ ctx.payload.paths = << <<"/", "b">>, <<"/", "a">> >>
    /\ ctx.payload.invalid = <<>>

\* The call has returned from one of its two open calls.
OpenFailed == Returned /\ ioCount["open"] >= 1 /\ ioCount["metadata"] = 0 /\ file = NoHandle

\* C32: when an open of the target fails, secure_wipe_file returns an error
\* and has written, truncated and removed nothing; a PermissionDenied failure
\* gives the access-denied message and any other failure the error of the
\* system, and the two texts differ.
C32_OpenFailure ==
    OpenFailed =>
        /\ result.tag = "Io"
        /\ ioCount["write"] = 0 /\ ioCount["set_len"] = 0 /\ ioCount["remove"] = 0
        /\ ioCount["seek"] = 0 /\ ioCount["sync"] = 0
        /\ fs = fs0
        /\ emitted = <<>>
        /\ result.kind = "PermissionDenied" <=> result = AccessDenied
        /\ result.kind # "PermissionDenied" =>
              (result = OsError(result.kind) /\ ErrText(result) # ErrText(AccessDenied))

\* C32 witness: the probe open succeeded and the second open was refused.
C32_Witness ==
    /\ OpenFailed
    /\ ioCount["open"] = 2
    /\ result = AccessDenied

\* C39: every snapshot of secure_wipe_file has 0 <= bytes_processed <=
\* total_bytes, total_bytes being the file size read after the open; within a
\* pass bytes_processed never decreases from one snapshot to the next; the last
\* snapshot of a call that returned Ok has bytes_processed = total_bytes.
C39_BytesWithinTotal ==
    /\ [](/\ emitted # <<>> =>
               /\ emitted[1].bytes_processed >= 0
               /\ emitted[1].bytes_processed <= emitted[1].total_bytes
               /\ emitted[1].total_bytes = file_size
          /\ (pc = "pass_start" /\ pass = 1) => file_size = fs0[file.node].len
          /\ (Returned /\ result = Ok) =>
               (emitted # <<>> /\ emitted[1].bytes_processed = emitted[1].total_bytes))
    /\ [][(/\ emitted # <<>>
           /\ emitted' # emitted
           /\ pc = "chunk")
             => /\ emitted'[1].current_pass = emitted[1].current_pass
                /\ emitted'[1].bytes_processed > emitted[1].bytes_processed]_vars

\* C39 witness: a call on a file of several chunks has returned Ok, its last
\* snapshot at the full size.
C39_Witness ==
    /\ Returned
    /\ result = Ok
    /\ file_size = MaxChunks * BUFFER_SIZE
    /\ emitted[1].bytes_processed = file_size
    /\ loopGap # None

\* C31 as stated: a disk-capacity probe that fails never ends
\* execute_free_space_wipe.
C31_ProbeNeverAborts == opResult # CommandErr("Could not find disk information")

\* C31 amended: a re-query made after the temp file was created that does not
\* find the disk changes neither the outcome nor the last figure of the space
\* used, and the operation goes on (to the next write at the head of the loop,
\* to the overwrite phase after an exhausted write); only the first probe,
\* made before any file is created, ends the operation when it finds no disk.
C31_RequeryMissKeepsFigure ==
    /\ [](opResult = CommandErr("Could not find disk information") =>
             (~hist.created /\ ~disk.found /\ fs = fs0))
    /\ [][(/\ hist'.probe = "missed"
           /\ \/ opPc = "fs_loop"
              \/ opPc = "fs_write" /\ hist'.writeFail # hist.writeFail
                                   /\ hist'.writeFail = "exhausted")
             => /\ filler'.last_space_used = filler.last_space_used
                /\ filler'.progress = filler.progress
                /\ opResult' = opResult
                /\ opPc' = IF opPc = "fs_loop" THEN "fs_write" ELSE "fs_overwrite"]_vars

\* C31 witness: the fill goes on to its next write after a re-query missed the
\* disk, the figure read earlier still there.
C31_Witness ==
    /\ opPc = "fs_write"
    /\ hist.probe = "missed"
    /\ filler.last_space_used = U64(2 * chunk_size)
    /\ filler.total_written = 3 * chunk_size

\* C34: execute_free_space_wipe enters the overwrite phase only after the fill
\* loop ended on a storage-exhaustion write failure; any other failure in the
\* fill, a failed sync_all after sync_every chunks included, ends the
\* operation with a failure outcome.
C34_OverwriteOnlyAfterExhaustion ==
    /\ hist.overwriteEntered => filler.exit = "exhausted"
    /\ (OpReturned /\ filler.exit = "sync_failed") =>
          (opResult.kind = "result" => ~opResult.success)

\* C35: the space-consumed figure available_space - current_available never
\* underflows: no reading of the free space is larger than the first one, so
\* no wrapped value is stored or handed out and the worker never panics.
C35_NoUnderflow ==
    /\ ~filler.last_space_used.wrapped
    /\ opResult # CommandErr("wipe_free_space task join error")
    /\ (opPc \in {"fs_loop", "fs_write", "fs_overwrite"} /\ emitted # <<>>) =>
          emitted[1].bytes_processed >= 0

\* C36: on every return of execute_free_space_wipe after the temp file was
\* created, the temp file is gone, unless a remove_file failed.
C36_TempFileGone ==
    (OpReturned /\ hist.created /\ ~hist.removeFailed) => ~exists(fs, TempFile)

\* C33: in a batch of wipe_files a regular file leaves the disk only in the
\* last step of a secure_wipe_file call on it that returns Ok; a file whose
\* wipe failed, and an entry the directory walk passed over, stays.
C33_RemovedOnlyIfWiped ==
    [][\A c \in Paths :
          (fs[c].kind \in {"file", "symlink"} /\ fs'[c].kind = "none") =>
              (path = c /\ pc = "remove" /\ result' = Ok)]_vars

\* C38: a snapshot handed to a progress callback while the operation's cancel
\* flag is set is not sent on as a wipe_progress event, in the fill and in the
\* overwrite phase alike; every snapshot that was sent on was handed over
\* before the flag was set.
C38_NoEventAfterCancel ==
    [][(emitted' # emitted /\ emitted' # <<>>) => (emitted'[2] <=> ~opCancelled)]_vars

\* C38 witness: during the overwrite phase a snapshot of a chunk written after
\* the cancel event was handed to the callback and dropped.
C38_Witness ==
    /\ opPc = "fs_wiping"
    /\ opCancelled
    /\ pc = "sync"
    /\ emitted # <<>>
    /\ InLoopSnapshot(emitted[1])
    /\ ~emitted[2]

\* C40: execute_free_space_wipe returns in the end, whether or not a cancel
\* event comes: the fill never writes more than the volume holds, and the
\* overwrite phase issues at most one chunk write per chunk of the temp file
\* in each of its passes.
C40_Returns ==
    /\ <>(opPc = "returned")
    /\ [](/\ filler.total_written <= disk.base
          /\ filler.total_written % chunk_size = 0
          /\ opPc = "fs_wiping" =>
                ioCount["write"] <= PassCount(algorithm, passes) * NumChunks(file_size))

\* C40 witness: the operation has returned after a fill that ended on an
\* exhausted write and an overwrite of every chunk of the temp file.
C40_Witness ==
    /\ opPc = "returned"
    /\ hist.writeFail = "exhausted"
    /\ hist.overwrite = "ok"
    /\ filler.total_written = MaxFillChunks * chunk_size

\* ---------------------------------------------------------------------------
\* The cancel_operation event and the commands that listen for it.  Several
\* invocations of wipe_files and execute_free_space_wipe follow one another
\* or overlap; bus.ops holds one record per invocation, in the order of
\* their start, and bus.events counts the cancel_operation events delivered.
\* ---------------------------------------------------------------------------
MaxOps == 2
MaxCancelEvents == 2
MaxPolls == 2

Commands == {"wipe_files", "execute_free_space_wipe"}

\* A flag that is whatever the last invocation left behind.
AtomicBoolNew_Shared == bus.events > 0

\* Arc::new(AtomicBool::new(false))
AtomicBoolNew == FALSE

\* Everything but bus.
quietVars ==
    << fs, passes, algorithm, opCancelled, cancelCtx, writesAfterCancel, opPc, opResult,
       batch, filler, disk, ctx, hist, callVars >>

InitListen ==
    /\ bus = NoBus
    /\ ctx = NoCtx
    /\ fs = [x \in Paths |-> NoNode]
    /\ fs0 = fs
    /\ passes = 0
    /\ algorithm = "NistClear"
    /\ path = ""
    /\ pc = "idle"
    /\ result = Running
    /\ cancelled = FALSE
    /\ opCancelled = FALSE
    /\ file = NoHandle
    /\ file_size = 0
    /\ progress = WipeProgressNew(0, 0, algorithm)
    /\ pass = 0
    /\ chunk_start = 0
    /\ elapsed = 0
    /\ emitted = <<>>
    /\ prevPass = 0
    /\ loopGap = None
    /\ ioLog = <<>>
    /\ ioCount = [k \in IoKinds |-> 0]
    /\ sweeps = 0
    /\ cancelCtx = NoCancel
    /\ writesAfterCancel = 0
    /\ opPc = "idle"
    /\ opResult = NoResult
    /\ batch = NoBatch
    /\ filler = NoFiller
    /\ disk = NoDisk
    /\ hist = NoHist

\* The command is invoked: let cancelled = Arc::new(AtomicBool::new(false)).
\* born is the number of events delivered before that, heard whether an
\* event was delivered between the listener's registration and the return.
Invoke ==
    /\ Len(bus.ops) < MaxOps
    /\ \E command \in Commands :
          bus' = [bus EXCEPT !.ops = Append(@, [command |-> command, at |-> "created",
                                                 cancelled |-> AtomicBoolNew,
                                                 outcome |-> "none", polls |-> 0,
                                                 born |-> bus.events, heard |-> FALSE])]
    /\ UNCHANGED quietVars

\* app_handle.listen("cancel_operation", move |_| cancel_for_listener.store(true)):
\* the listener is registered, and the worker is spawned.
Listen(i) ==
    /\ bus.ops[i].at = "created"
    /\ bus' = [bus EXCEPT !.ops[i].at = "running"]
    /\ UNCHANGED quietVars

\* A cancel_operation event is delivered: every listener registered so far
\* runs, those of the invocations that returned included (the EventId that
\* listen returned is dropped, nothing unlistens).
CancelEvent ==
    /\ bus.events < MaxCancelEvents
    /\ bus' = [events |-> bus.events + 1,
               ops |-> [i \in DOMAIN bus.ops |->
                          IF bus.ops[i].at = "created" THEN bus.ops[i]
                          ELSE [bus.ops[i] EXCEPT !.cancelled = TRUE,
                                                  !.heard = @ \/ bus.ops[i].at = "running"]]]
    /\ UNCHANGED quietVars

\* A check inside the worker's loop: if cancelled.load(SeqCst) { return
\* Ok(cancelled_wipe_result()) }, otherwise the work goes on.
Poll(i) ==
    /\ bus.ops[i].at = "running"
    /\ bus.ops[i].polls < MaxPolls
    /\ bus' = IF bus.ops[i].cancelled
                 THEN [bus EXCEPT !.ops[i].at = "returned", !.ops[i].outcome = "cancelled"]
                 ELSE [bus EXCEPT !.ops[i].polls = @ + 1]
    /\ UNCHANGED quietVars

\* The work is over: if cancelled.load(SeqCst) { Ok(cancelled_wipe_result()) }
\* else the outcome of the work.
Finish(i) ==
    /\ bus.ops[i].at = "running"
    /\ bus' = [bus EXCEPT !.ops[i].at = "returned",
                          !.ops[i].outcome = IF bus.ops[i].cancelled THEN "cancelled"
                                             ELSE "done"]
    /\ UNCHANGED quietVars

NextListen ==
    \/ Invoke
    \/ CancelEvent
    \/ \E i \in DOMAIN bus.ops : Listen(i)
    \/ \E i \in DOMAIN bus.ops : Poll(i)
    \/ \E i \in DOMAIN bus.ops : Finish(i)

SpecListen == InitListen /\ [][NextListen]_vars

\* C37: an invocation reports the cancelled outcome only if a
\* cancel_operation event was delivered during its own lifetime, after its
\* listener was registered and before it returned: its flag is false until
\* the listener is registered, whatever events came before, a flag that is
\* set had an event delivered to a registered listener, and no step resets
\* a flag.
C37_CancelledOnlyIfHeard ==
    /\ [](\A i \in DOMAIN bus.ops :
             /\ bus.ops[i].outcome = "cancelled" => bus.ops[i].heard
             /\ bus.ops[i].at = "created" => ~bus.ops[i].cancelled
             /\ bus.ops[i].cancelled => bus.events > bus.ops[i].born)
    /\ [][\A i \in DOMAIN bus.ops : bus.ops[i].cancelled => bus'.ops[i].cancelled]_vars

\* The first invocation was cancelled and returned; the second started after
\* that event, ran its checks and returned its own outcome.
C37_Witness ==
    /\ Len(bus.ops) = 2
    /\ bus.ops[1].outcome = "cancelled"
    /\ bus.ops[2].born >= 1
    /\ bus.ops[2].polls >= 1
    /\ bus.ops[2].outcome = "done"

====
